---- MODULE Spec2Model ----
(***************************************************************************)
(* Model of the math_engine expression evaluator: the shunting-yard        *)
(* conversion of an infix token sequence to Reverse Polish Notation        *)
(* (evaluator.rs, mod shunting_yard), the RPN evaluator (rpn_eval) and the *)
(* context the two read (context.rs, DefaultContext and Config).           *)
(*                                                                         *)
(* The numeric type N is instantiated with a checked 16-bit signed         *)
(* integer.  Tokens are records [kind, name, val]; a name is looked up in  *)
(* the context through Key, the case-insensitive key of IgnoreCaseString.  *)
(***************************************************************************)
EXTENDS Integers, Sequences, FiniteSets, TLC

VARIABLES
    variables,         \* DefaultContext.variables : key -> N
    constants,         \* DefaultContext.constants : key -> N
    functions,         \* DefaultContext.functions : key -> callable
    binary_functions,  \* DefaultContext.binary_functions : key -> callable
    unary_functions,   \* DefaultContext.unary_functions : key -> callable
    config,            \* DefaultContext.config
    build,             \* "debug" or "release": decides debug assertions and overflow checks
    call,              \* the API operation performed last
    tokens,            \* the token sequence the caller holds and evaluates
    result,            \* what the last operation returned
    set_log            \* history: the <<key, value>> of every set_variable that returned, in order

vars == <<variables, constants, functions, binary_functions, unary_functions,
          config, build, call, tokens, result, set_log>>

context == <<variables, constants, functions, binary_functions, unary_functions, config>>

----------------------------------------------------------------------------
(* Tokens *)

Tok(kind, name, val) == [kind |-> kind, name |-> name, val |-> val]

Number(n) == Tok("Number", "", n)

Variable(s) == Tok("Variable", s, 0)

Constant(s) == Tok("Constant", s, 0)

BinaryOperator(s) == Tok("BinaryOperator", s, 0)

UnaryOperator(s) == Tok("UnaryOperator", s, 0)

Function(s) == Tok("Function", s, 0)

ArgCount(k) == Tok("ArgCount", "", k)

GroupingOpen(c) == Tok("GroupingOpen", c, 0)

GroupingClose(c) == Tok("GroupingClose", c, 0)

Comma == Tok("Comma", ",", 0)

is_number(t) == t.kind = "Number"

is_function(t) == t.kind = "Function"

is_grouping_open(t) == t.kind = "GroupingOpen"

is_grouping_close(t) == t.kind = "GroupingClose"

contains_symbol(t, c) == t.kind \in {"GroupingOpen", "GroupingClose"} /\ t.name = c

----------------------------------------------------------------------------
(* Sequence helpers: Vec::last, Vec::pop, Iterator::nth *)

Last(s) == s[Len(s)]

Front(s) == SubSeq(s, 1, Len(s) - 1)

\* tokens.iter().nth(i) with a 0-based index: the token is present iff HasNth
HasNth(ts, i) == i >= 0 /\ i < Len(ts)

Nth(ts, i) == ts[i + 1]

----------------------------------------------------------------------------
(* Errors and results *)

InvalidInput == "InvalidInput"

InvalidExpression == "InvalidExpression"

InvalidArgumentCount == "InvalidArgumentCount"

Overflow == "Overflow"

NegativeValue == "NegativeValue"

DivisionByZero == "DivisionByZero"

\* Result<N>: Ok(value), Err(kind), or a panic that unwinds out of the call
Ok(v) == [kind |-> "", status |-> "Ok", value |-> v]

Err(k) == [kind |-> k, status |-> "Err", value |-> 0]

Panic == [kind |-> "", status |-> "Panic", value |-> 0]

----------------------------------------------------------------------------
(* The numeric type N: a checked 16-bit signed integer *)

NMin == -32768

NMax == 32767

InN(v) == v >= NMin /\ v <= NMax

Checked(v) == IF InN(v) THEN Ok(v) ELSE Err(Overflow)

Abs(v) == IF v < 0 THEN -v ELSE v

\* Rust's integer division truncates toward zero
TruncDiv(a, b) == IF (a < 0) = (b < 0) THEN Abs(a) \div Abs(b) ELSE -(Abs(a) \div Abs(b))

\* Rust's % has the sign of the dividend
Rem(a, b) == a - b * TruncDiv(a, b)

----------------------------------------------------------------------------
(* Callable metadata (function.rs) and the standard callables (ops) *)

LOW == 1

MEDIUM == 2

HIGH == 3

VERY_HIGH == 4

Precedences == {LOW, MEDIUM, HIGH, VERY_HIGH}

Associativities == {"Left", "Right"}

BinaryFn(name, prec, assoc, op) ==
    [call |-> op, name |-> name, precedence |-> prec, associativity |-> assoc]

UnaryFn(name, notation, op) == [call |-> op, name |-> name, notation |-> notation]

Fn(name, op) == [call |-> op, name |-> name]

\* base^exp for |base| >= 2 and 0 <= exp <= 15, cut off once it has left N
RECURSIVE PowSat(_, _)
PowSat(b, e) ==
    IF e = 0 THEN 1
    ELSE LET r == PowSat(b, e - 1) IN IF InN(r) THEN r * b ELSE r

\* PowOperator::call: f64::powf, then N::from_f64 (None, so Overflow, outside N)
PowOperator(left, right) ==
    IF left = 1 THEN Ok(1)
    ELSE IF left = -1 THEN Ok(IF right % 2 = 0 THEN 1 ELSE -1)
    ELSE IF right = 0 THEN Ok(1)
    ELSE IF left = 0 THEN (IF right > 0 THEN Ok(0) ELSE Err(Overflow))
    ELSE IF right < 0 THEN Ok(0)
    ELSE IF right > 15 THEN Err(Overflow)
    ELSE Checked(PowSat(left, right))

\* the value a 16-bit two's complement register holds after a wrapping operation
Wrap(v) == ((v - NMin) % (NMax - NMin + 1)) + NMin

\* the loop of Factorial::call: total = total * next while next >= 1; the plain `*`
\* panics on overflow in a debug build and wraps in a release build
RECURSIVE FactorialLoop(_, _)
FactorialLoop(total, next) ==
    IF next < 1 THEN Ok(total)
    ELSE IF InN(total * next) THEN FactorialLoop(total * next, next - 1)
    ELSE IF build = "debug" THEN Panic
    ELSE FactorialLoop(Wrap(total * next), next - 1)

\* Factorial::call; from 18 on the product is a multiple of 2^16: it overflows, and
\* the wrapped product is 0
Factorial(value) ==
    IF value < 0 THEN Err(NegativeValue)
    ELSE IF value = 0 \/ value = 1 THEN Ok(1)
    ELSE IF value >= 18 THEN (IF build = "debug" THEN Panic ELSE Ok(0))
    ELSE FactorialLoop(value, value - 1)

RECURSIVE MaxOf(_, _, _)
MaxOf(args, i, max) ==
    IF i > Len(args) THEN max
    ELSE MaxOf(args, i + 1, IF args[i] > max THEN args[i] ELSE max)

\* MaxFunction::call
MaxFunction(args) ==
    IF args = <<>> THEN Err(InvalidArgumentCount) ELSE Ok(MaxOf(args, 2, args[1]))

RECURSIVE MinOf(_, _, _)
MinOf(args, i, min) ==
    IF i > Len(args) THEN min
    ELSE MinOf(args, i + 1, IF args[i] < min THEN args[i] ELSE min)

\* MinFunction::call
MinFunction(args) ==
    IF args = <<>> THEN Err(InvalidArgumentCount) ELSE Ok(MinOf(args, 2, args[1]))

RECURSIVE SumOf(_, _, _)
SumOf(args, i, total) ==
    IF i > Len(args) THEN Ok(total)
    ELSE IF InN(total + args[i]) THEN SumOf(args, i + 1, total + args[i])
    ELSE Err(Overflow)

\* SumFunction::call of the checked operations
SumFunction(args) == SumOf(args, 1, 0)

\* BinaryFunction::call, dispatched on the callable registered
call_binary(f, lhs, rhs) ==
    CASE f.call = "add" -> Checked(lhs + rhs)
      [] f.call = "sub" -> Checked(lhs - rhs)
      [] f.call = "mul" -> Checked(lhs * rhs)
      [] f.call = "div" -> IF rhs = 0 THEN Err(DivisionByZero) ELSE Checked(TruncDiv(lhs, rhs))
      [] f.call = "mod" -> IF rhs = 0 THEN Err(DivisionByZero) ELSE Checked(Rem(lhs, rhs))
      [] f.call = "pow" -> PowOperator(lhs, rhs)

\* UnaryFunction::call
call_unary(f, value) ==
    CASE f.call = "plus" -> Ok(value)
      [] f.call = "minus" -> Checked(-value)
      [] f.call = "factorial" -> Factorial(value)

\* f64::signum of an integer: 1.0 for +0.0 and above, -1.0 below
Signum(v) == IF v < 0 THEN -1 ELSE 1

\* forward_func_impl!: exactly one argument, taken to f64, through the method and
\* back; floor, ceil, trunc and round leave an integer as it is
forward_func(args, name) ==
    IF Len(args) # 1 THEN Err(InvalidArgumentCount)
    ELSE IF name = "sign" THEN Ok(Signum(args[1]))
    ELSE Ok(args[1])

\* Function::call
call_function(f, args) ==
    CASE f.call = "max" -> MaxFunction(args)
      [] f.call = "min" -> MinFunction(args)
      [] f.call = "sum" -> SumFunction(args)
      [] f.call \in {"floor", "ceil", "truncate", "round", "sign"} -> forward_func(args, f.call)

----------------------------------------------------------------------------
(* Config and DefaultContext *)

\* IgnoreCaseString: the key under which a name is hashed and compared
Key(s) ==
    CASE s = "X" -> "x"
      [] s = "Y" -> "y"
      [] s = "PI" -> "pi"
      [] s = "Pi" -> "pi"
      [] s = "E" -> "e"
      [] s = "Max" -> "max"
      [] s = "MAX" -> "max"
      [] s = "Min" -> "min"
      [] s = "MIN" -> "min"
      [] s = "Sum" -> "sum"
      [] s = "SUM" -> "sum"
      [] s = "MOD" -> "mod"
      [] s = "Mod" -> "mod"
      [] s = "Floor" -> "floor"
      [] s = "Ceil" -> "ceil"
      [] s = "Truncate" -> "truncate"
      [] s = "Round" -> "round"
      [] s = "Sign" -> "sign"
      [] OTHER -> s

GroupingSymbol(open, close) == [group_open |-> open, group_close |-> close]

\* Config::default()
ConfigDefault ==
    [implicit_mul |-> FALSE, custom_function_call |-> FALSE, grouping |-> <<>>]

\* Config::with_group_symbol; a duplicated symbol panics
with_group_symbol_ok(cfg, open, close) ==
    open # close /\ open \notin DOMAIN cfg.grouping /\ close \notin DOMAIN cfg.grouping

\* a variant of with_group_symbol that registers the pair under its open symbol only
with_group_symbol_open_only(cfg, open, close) ==
    [cfg EXCEPT !.grouping =
        [c \in DOMAIN cfg.grouping \cup {open} |->
            IF c = open THEN GroupingSymbol(open, close) ELSE cfg.grouping[c]]]

with_group_symbol(cfg, open, close) ==
    [cfg EXCEPT !.grouping =
        [c \in DOMAIN cfg.grouping \cup {open, close} |->
            IF c \in {open, close} THEN GroupingSymbol(open, close) ELSE cfg.grouping[c]]]

\* Config::new()
ConfigNew == with_group_symbol(ConfigDefault, "(", ")")

with_implicit_mul(cfg, b) == [cfg EXCEPT !.implicit_mul = b]

with_custom_function_call(cfg, b) == [cfg EXCEPT !.custom_function_call = b]

\* Config::get_group_symbol(c).is_some()
has_group_symbol(c) == c \in DOMAIN config.grouping

get_group_symbol(c) == config.grouping[c]

\* Config::get_group_open_for(c).map_or(false, |v| v == s)
group_open_for_is(c, s) ==
    has_group_symbol(c) /\ get_group_symbol(c).group_close = c
        /\ get_group_symbol(c).group_open = s

\* Context::is_*, get_*: lookups through the case-insensitive key
is_variable(name) == Key(name) \in DOMAIN variables

get_variable(name) == variables[Key(name)]

\* a variant of is_constant that looks the name up as written
is_constant_exact(name) == name \in DOMAIN constants

is_constant(name) == Key(name) \in DOMAIN constants

get_constant(name) == constants[Key(name)]

is_a_function(name) == Key(name) \in DOMAIN functions

get_function(name) == functions[Key(name)]

is_binary_function(name) == Key(name) \in DOMAIN binary_functions

get_binary_function(name) == binary_functions[Key(name)]

is_unary_function(name) == Key(name) \in DOMAIN unary_functions

get_unary_function(name) == unary_functions[Key(name)]

\* the maps DefaultContext::new_checked_with_config fills
CheckedConstants == [k \in {"pi", "e"} |-> IF k = "pi" THEN 3 ELSE 2]

CheckedBinaryFunctions ==
    [k \in {"+", "-", "*", "/", "^", "mod"} |->
        CASE k = "+" -> BinaryFn("+", LOW, "Left", "add")
          [] k = "-" -> BinaryFn("-", LOW, "Left", "sub")
          [] k = "*" -> BinaryFn("*", MEDIUM, "Left", "mul")
          [] k = "/" -> BinaryFn("/", MEDIUM, "Left", "div")
          [] k = "mod" -> BinaryFn("mod", MEDIUM, "Left", "mod")
          [] k = "^" -> BinaryFn("^", HIGH, "Right", "pow")]

CheckedUnaryFunctions ==
    [k \in {"+", "-", "!"} |->
        CASE k = "+" -> UnaryFn("+", "Prefix", "plus")
          [] k = "-" -> UnaryFn("-", "Prefix", "minus")
          [] k = "!" -> UnaryFn("!", "Postfix", "factorial")]

\* the trigonometric functions both factories register
TrigFunctionNames ==
    {"sin", "cos", "tan", "csc", "sec", "cot", "asin", "acos", "atan", "acsc", "asec",
     "acot", "sinh", "cosh", "tanh", "csch", "sech", "coth", "asinh", "acosh", "atanh",
     "acsch", "asech", "acoth"}

\* the names of the functions new_checked_with_config registers (feature `random` off)
CheckedFunctionNames ==
    {"sum", "prod", "avg", "max", "min", "abs", "sqrt", "ln", "log", "exp", "floor",
     "ceil", "truncate", "round", "sign"} \cup TrigFunctionNames

CheckedFunctions ==
    [k \in CheckedFunctionNames |-> Fn(k, k)]

\* the maps DefaultContext::new_unchecked_with_config fills: the operators and the
\* sum, avg and prod of ops::unchecked, the other callables of ops::math
UncheckedBinaryFunctions ==
    [k \in {"+", "-", "*", "/", "^", "mod"} |->
        CASE k = "+" -> BinaryFn("+", LOW, "Left", "unchecked add")
          [] k = "-" -> BinaryFn("-", LOW, "Left", "unchecked sub")
          [] k = "*" -> BinaryFn("*", MEDIUM, "Left", "unchecked mul")
          [] k = "/" -> BinaryFn("/", MEDIUM, "Left", "unchecked div")
          [] k = "mod" -> BinaryFn("mod", MEDIUM, "Left", "unchecked mod")
          [] k = "^" -> BinaryFn("^", HIGH, "Right", "pow")]

UncheckedUnaryFunctions ==
    [k \in {"+", "-", "!"} |->
        CASE k = "+" -> UnaryFn("+", "Prefix", "plus")
          [] k = "-" -> UnaryFn("-", "Prefix", "unchecked minus")
          [] k = "!" -> UnaryFn("!", "Postfix", "factorial")]

UncheckedFunctionNames ==
    {"sum", "avg", "prod", "max", "min", "sqrt", "ln", "log", "exp"} \cup TrigFunctionNames

UncheckedFunctions ==
    [k \in UncheckedFunctionNames |->
        CASE k = "sum" -> Fn(k, "unchecked sum")
          [] k = "avg" -> Fn(k, "unchecked avg")
          [] k = "prod" -> Fn(k, "unchecked prod")
          [] OTHER -> Fn(k, k)]

----------------------------------------------------------------------------
(* shunting_yard: the state of one conversion is the record                 *)
(*   [output, operators, arg_count, grouping_count, err]                    *)
(* err is "" while the conversion goes on, an ErrorKind once it has         *)
(* returned Err, "panic" once it has panicked.                              *)

SyInit ==
    [output |-> <<>>, operators |-> <<>>, arg_count |-> <<>>,
     grouping_count |-> <<>>, err |-> ""]

Fail(sy, kind) == [sy EXCEPT !.err = kind]

push_number(sy, token) ==
    LET output == Append(sy.output, token)
        operators == sy.operators
    IN  IF operators # <<>> /\ Last(operators).kind = "UnaryOperator"
            /\ is_unary_function(Last(operators).name)
        THEN [sy EXCEPT !.output = Append(output, Last(operators)),
                        !.operators = Front(operators)]
        ELSE [sy EXCEPT !.output = output]

push_unary_function(sy, token, name) ==
    IF is_unary_function(name)
    THEN IF get_unary_function(name).notation = "Prefix"
         THEN [sy EXCEPT !.operators = Append(sy.operators, token)]
         ELSE IF sy.output # <<>>
              THEN [sy EXCEPT !.output = Append(sy.output, token)]
              ELSE Fail(sy, InvalidExpression)
    ELSE Fail(sy, InvalidInput)

\* a variant of the test below that reads the associativity of the incoming
\* operator where the code reads that of the operator on top of the stack
pops_top_operator_incoming(top, operator) ==
    \/ top.precedence > operator.precedence
    \/ (top.precedence = operator.precedence /\ operator.associativity = "Left")

\* the test of push_binary_function that pops the operator on top of the stack
pops_top_operator(top, operator) ==
    \/ top.precedence > operator.precedence
    \/ (top.precedence = operator.precedence /\ top.associativity = "Left")

\* the `while let Some(t) = operators.last()` loop of push_binary_function
RECURSIVE push_binary_loop(_, _)
push_binary_loop(sy, operator) ==
    IF sy.operators = <<>> THEN sy
    ELSE LET t == Last(sy.operators)
             popped == [sy EXCEPT !.output = Append(sy.output, t),
                                  !.operators = Front(sy.operators)]
         IN  IF is_grouping_open(t) THEN sy
             ELSE IF is_function(t) THEN push_binary_loop(popped, operator)
             ELSE IF t.kind # "BinaryOperator" THEN sy
             ELSE IF ~is_binary_function(t.name) THEN sy
             ELSE IF pops_top_operator(get_binary_function(t.name), operator)
                  THEN push_binary_loop(popped, operator)
                  ELSE sy

\* operators.push(token.clone())
push_operator(sy, token) == [sy EXCEPT !.operators = Append(sy.operators, token)]

push_binary_function(sy, token, name) ==
    IF ~is_binary_function(name) THEN Fail(sy, InvalidInput)
    ELSE push_operator(push_binary_loop(sy, get_binary_function(name)), token)

\* a variant of close_group that emits the number of commas, not of arguments
close_group_commas(sy, c, group_close) ==
    IF has_group_symbol(c) /\ get_group_symbol(c).group_close = group_close
    THEN IF sy.arg_count # <<>> /\ sy.operators # <<>> /\ is_function(Last(sy.operators))
         THEN [sy EXCEPT !.output = sy.output \o
                              <<ArgCount(Last(sy.arg_count)), Last(sy.operators)>>,
                         !.operators = Front(sy.operators),
                         !.arg_count = Front(sy.arg_count)]
         ELSE sy
    ELSE Fail(sy, InvalidExpression)

\* what push_grouping_close does once it has popped the GroupingOpen(c)
close_group(sy, c, group_close) ==
    IF has_group_symbol(c) /\ get_group_symbol(c).group_close = group_close
    THEN IF sy.arg_count # <<>> /\ sy.operators # <<>> /\ is_function(Last(sy.operators))
         THEN [sy EXCEPT !.output = sy.output \o
                              <<ArgCount(Last(sy.arg_count) + 1), Last(sy.operators)>>,
                         !.operators = Front(sy.operators),
                         !.arg_count = Front(sy.arg_count)]
         ELSE sy
    ELSE Fail(sy, InvalidExpression)

RECURSIVE push_grouping_close(_, _)
push_grouping_close(sy, group_close) ==
    IF sy.operators = <<>> THEN Fail(sy, InvalidExpression)
    ELSE LET t == Last(sy.operators)
             rest == [sy EXCEPT !.operators = Front(sy.operators)]
         IN  IF is_grouping_open(t) THEN close_group(rest, t.name, group_close)
             ELSE push_grouping_close([rest EXCEPT !.output = Append(sy.output, t)],
                                      group_close)

\* the loop of push_comma: pop to the output until a GroupingOpen is on top
RECURSIVE push_comma_loop(_)
push_comma_loop(sy) ==
    IF sy.operators = <<>> THEN Fail(sy, InvalidExpression)
    ELSE IF is_grouping_open(Last(sy.operators)) THEN sy
    ELSE push_comma_loop([sy EXCEPT !.output = Append(sy.output, Last(sy.operators)),
                                    !.operators = Front(sy.operators)])

push_comma(sy) ==
    IF sy.arg_count = <<>> THEN Fail(sy, InvalidExpression)
    ELSE push_comma_loop(
            [sy EXCEPT !.arg_count = Append(Front(sy.arg_count), Last(sy.arg_count) + 1)])

\* a variant of check_comma_position without the test of the innermost grouping
check_comma_position_any_group(ts, grouping_count, pos) ==
    IF pos = 0 THEN InvalidInput
    ELSE IF HasNth(ts, pos - 1) /\ is_grouping_open(Nth(ts, pos - 1)) THEN InvalidInput
    ELSE IF HasNth(ts, pos + 1) /\ is_grouping_close(Nth(ts, pos + 1)) THEN InvalidInput
    ELSE ""

\* check_comma_position: "" for Ok(()), else the error; pos is 0-based.
\* `*grouping_count.last().unwrap() - 1` underflows when the marker is 0: a panic in
\* a debug build, usize::MAX (no such token) in a release build
check_comma_position(ts, grouping_count, pos) ==
    IF pos = 0 THEN InvalidInput
    ELSE IF HasNth(ts, pos - 1) /\ is_grouping_open(Nth(ts, pos - 1)) THEN InvalidInput
    ELSE IF HasNth(ts, pos + 1) /\ is_grouping_close(Nth(ts, pos + 1)) THEN InvalidInput
    ELSE IF grouping_count = <<>> THEN ""
    ELSE IF Last(grouping_count) = 0 THEN (IF build = "debug" THEN "panic" ELSE InvalidInput)
    ELSE IF HasNth(ts, Last(grouping_count) - 1)
                /\ is_function(Nth(ts, Last(grouping_count) - 1))
         THEN ""
         ELSE InvalidInput

\* the empty-grouping check of the GroupingClose arm: `(` `)` not preceded by a function
empty_grouping(ts, pos, c) ==
    /\ pos > 1
    /\ is_grouping_open(Nth(ts, pos - 1))
    /\ group_open_for_is(c, Nth(ts, pos - 1).name)
    /\ ~is_function(Nth(ts, pos - 2))

\* a variant of function_call_opens that takes any grouping-open after the function
function_call_opens_any_group(ts, pos) ==
    \/ config.custom_function_call
    \/ (HasNth(ts, pos + 1) /\ is_grouping_open(Nth(ts, pos + 1)))

\* the Function arm: the call must open with a parenthesis
function_call_opens(ts, pos) ==
    \/ config.custom_function_call
    \/ (HasNth(ts, pos + 1) /\ contains_symbol(Nth(ts, pos + 1), "("))

\* the GroupingClose arm after push_grouping_close has returned `closed`
after_grouping_close(ts, pos, c, closed) ==
    IF closed.err # "" THEN closed
    ELSE IF empty_grouping(ts, pos, c) THEN Fail(closed, InvalidInput)
    ELSE IF closed.arg_count # <<>> /\ closed.grouping_count # <<>>
         THEN [closed EXCEPT !.grouping_count = Front(closed.grouping_count)]
         ELSE closed

\* the Comma arm after check_comma_position has returned `checked`
after_comma_check(sy, checked) ==
    IF checked # "" THEN Fail(sy, checked) ELSE push_comma(sy)

\* the `match token` of the main loop, for the token at the 0-based position pos
match_token(ts, sy, pos, token) ==
    CASE token.kind \in {"Number", "Variable", "Constant"} -> push_number(sy, token)
      [] token.kind = "BinaryOperator" -> push_binary_function(sy, token, token.name)
      [] token.kind = "UnaryOperator" -> push_unary_function(sy, token, token.name)
      [] token.kind = "Function" ->
            IF ~function_call_opens(ts, pos) THEN Fail(sy, InvalidInput)
            ELSE [sy EXCEPT !.arg_count = Append(sy.arg_count, 0),
                            !.operators = Append(sy.operators, token)]
      [] token.kind = "GroupingOpen" ->
            [sy EXCEPT !.operators = Append(sy.operators, token),
                       !.grouping_count = IF sy.arg_count # <<>>
                                          THEN Append(sy.grouping_count, pos)
                                          ELSE sy.grouping_count]
      [] token.kind = "GroupingClose" ->
            after_grouping_close(ts, pos, token.name, push_grouping_close(sy, token.name))
      [] token.kind = "Comma" ->
            after_comma_check(sy, check_comma_position(ts, sy.grouping_count, pos))
      [] OTHER -> Fail(sy, InvalidInput)

\* a variant of injects_mul without the branch for a grouping-close
injects_mul_after_number(ts, pos) ==
    /\ config.implicit_mul
    /\ HasNth(ts, pos + 1)
    /\ is_number(Nth(ts, pos))
    /\ Nth(ts, pos + 1).kind \in {"Function", "Constant", "Variable", "GroupingOpen"}

\* the implicit multiplication injected after the token at pos
injects_mul(ts, pos) ==
    /\ config.implicit_mul
    /\ HasNth(ts, pos + 1)
    /\ \/ /\ is_number(Nth(ts, pos))
          /\ Nth(ts, pos + 1).kind \in {"Function", "Constant", "Variable", "GroupingOpen"}
       \/ /\ is_grouping_close(Nth(ts, pos))
          /\ Nth(ts, pos + 1).kind \in
                {"Number", "Variable", "Constant", "Function", "GroupingOpen"}

\* a variant of inject_mul that also multiplies a Variable or Constant by the group
\* that follows it
inject_mul_after_name(ts, pos, matched) ==
    IF matched.err = ""
        /\ \/ injects_mul(ts, pos)
           \/ /\ config.implicit_mul
              /\ HasNth(ts, pos + 1)
              /\ Nth(ts, pos).kind \in {"Variable", "Constant"}
              /\ is_grouping_open(Nth(ts, pos + 1))
    THEN push_operator(matched, BinaryOperator("*"))
    ELSE matched

\* `if context.config().implicit_mul {...}` after the match returned `matched`
inject_mul(ts, pos, matched) ==
    IF matched.err = "" /\ injects_mul(ts, pos)
    THEN push_operator(matched, BinaryOperator("*"))
    ELSE matched

\* one turn of `while let Some((pos, token)) = token_iterator.next()`
sy_token(ts, sy, pos) == inject_mul(ts, pos, match_token(ts, sy, pos, Nth(ts, pos)))

RECURSIVE sy_loop(_, _, _)
sy_loop(ts, sy, pos) ==
    IF pos >= Len(ts) \/ sy.err # "" THEN sy
    ELSE sy_loop(ts, sy_token(ts, sy, pos), pos + 1)

\* the test of the final drain: `t.is_grouping_close() || t.is_grouping_close()`
drain_rejects(t) == is_grouping_close(t) \/ is_grouping_close(t)

\* `while let Some(t) = operators.pop()` after the input is exhausted
RECURSIVE drain(_)
drain(sy) ==
    IF sy.operators = <<>> THEN sy
    ELSE IF drain_rejects(Last(sy.operators)) THEN Fail(sy, InvalidExpression)
    ELSE drain([sy EXCEPT !.output = Append(sy.output, Last(sy.operators)),
                          !.operators = Front(sy.operators)])

RpnOk(rpn) == [kind |-> "", status |-> "Ok", value |-> 0, rpn |-> rpn, trace |-> <<>>]

RpnErr(kind) == [kind |-> kind, status |-> "Err", value |-> 0, rpn |-> <<>>, trace |-> <<>>]

RpnPanic == [kind |-> "", status |-> "Panic", value |-> 0, rpn |-> <<>>, trace |-> <<>>]

\* the drain, entered only if the loop over the tokens returned no error
drain_after(looped) == IF looped.err = "" THEN drain(looped) ELSE looped

\* Ok(output), or the error
rpn_result(sy) ==
    IF sy.err = "" THEN RpnOk(sy.output)
    ELSE IF sy.err = "panic" THEN RpnPanic
    ELSE RpnErr(sy.err)

\* shunting_yard::infix_to_rpn
infix_to_rpn(ts) == rpn_result(drain_after(sy_loop(ts, SyInit, 0)))

----------------------------------------------------------------------------
(* rpn_eval: the state of the loop over the RPN is the record               *)
(*   [values, arg_count, invoked, out]                                      *)
(* arg_count is <<>> for None and <<k>> for Some(k); invoked is the call    *)
(* the last token made (<<>> if none); out.status is "Run" until the        *)
(* function returns.                                                        *)

None == <<>>

Some(k) == <<k>>

Running == [kind |-> "", status |-> "Run", value |-> 0]

EvInit == [arg_count |-> None, values |-> <<>>, invoked |-> <<>>, out |-> Running]

Return(ev, r) == [ev EXCEPT !.out = r, !.invoked = <<>>]

Invoked(name, args) == <<[name |-> name, args |-> args]>>

\* a variant of push_result that pushes the zero value of an Err and goes on
push_result_or_zero(ev, r, name, args) ==
    IF r.status \in {"Ok", "Err"}
    THEN [ev EXCEPT !.values = Append(ev.values, r.value), !.invoked = Invoked(name, args)]
    ELSE [ev EXCEPT !.out = r, !.invoked = Invoked(name, args)]

\* `?` on the result of a call: push the value, or return the error (or unwind)
push_result(ev, r, name, args) ==
    IF r.status = "Ok"
    THEN [ev EXCEPT !.values = Append(ev.values, r.value), !.invoked = Invoked(name, args)]
    ELSE [ev EXCEPT !.out = r, !.invoked = Invoked(name, args)]

Reverse(s) == [i \in 1..Len(s) |-> s[Len(s) + 1 - i]]

\* `for _ in 0..n { match values.pop() {...} }`: on None the error is built and
\* dropped, and the loop goes on
RECURSIVE pop_args(_, _, _)
pop_args(values, n, args) ==
    IF n = 0 THEN [args |-> args, values |-> values]
    ELSE IF values = <<>> THEN pop_args(values, n - 1, args)
    ELSE pop_args(Front(values), n - 1, Append(args, Last(values)))

\* a variant of binary_operands that passes the two values in the order popped
binary_operands_popped(values) ==
    LET x == values[Len(values)]
        y == values[Len(values) - 1]
    IN  <<x, y>>

\* the operands of `func.call(y, x)` after `(values.pop(), values.pop())`
binary_operands(values) ==
    LET x == values[Len(values)]
        y == values[Len(values) - 1]
    IN  <<y, x>>

\* `func.call(n)?` on the value popped
call_unary_on(ev, name, n) ==
    push_result(ev, call_unary(get_unary_function(name), n), name, <<n>>)

eval_unary(ev, name) ==
    IF ~is_unary_function(name) THEN Return(ev, Err(InvalidInput))
    ELSE IF ev.values = <<>> THEN Return(ev, Err(InvalidExpression))
    ELSE call_unary_on([ev EXCEPT !.values = Front(ev.values)], name, Last(ev.values))

\* `func.call(y, x)?` on the two values popped
call_binary_on(ev, name, ops) ==
    push_result(ev, call_binary(get_binary_function(name), ops[1], ops[2]), name, ops)

\* a variant of eval_binary that leaves a lone operand on the stack as the result
eval_binary_lone_operand(ev, name) ==
    IF ~is_binary_function(name) THEN Return(ev, Err(InvalidInput))
    ELSE IF Len(ev.values) < 2 THEN ev
    ELSE call_binary_on([ev EXCEPT !.values = SubSeq(ev.values, 1, Len(ev.values) - 2)],
                        name, binary_operands(ev.values))

eval_binary(ev, name) ==
    IF ~is_binary_function(name) THEN Return(ev, Err(InvalidInput))
    ELSE IF Len(ev.values) < 2
         THEN Return([ev EXCEPT !.values = <<>>], Err(InvalidExpression))
    ELSE call_binary_on([ev EXCEPT !.values = SubSeq(ev.values, 1, Len(ev.values) - 2)],
                        name, binary_operands(ev.values))

\* a variant of function_result that leaves arg_count as the call found it
function_result_keeps_count(ev, name, args, r) ==
    IF r.status = "Ok"
    THEN [ev EXCEPT !.values = Append(ev.values, r.value),
                    !.invoked = Invoked(name, args)]
    ELSE [ev EXCEPT !.out = r, !.invoked = Invoked(name, args)]

\* `let result = func.call(&args)?; values.push(result); arg_count = None;`
function_result(ev, name, args, r) ==
    IF r.status = "Ok"
    THEN [ev EXCEPT !.values = Append(ev.values, r.value),
                    !.arg_count = None,
                    !.invoked = Invoked(name, args)]
    ELSE [ev EXCEPT !.out = r, !.invoked = Invoked(name, args)]

\* `args.reverse(); func.call(&args)`
call_with(ev, name, args) ==
    function_result(ev, name, args, call_function(get_function(name), args))

\* the arguments popped, put back in source order
call_popped(ev, name, taken) ==
    call_with([ev EXCEPT !.values = taken.values], name, Reverse(taken.args))

eval_function(ev, name) ==
    IF ~is_a_function(name) THEN Return(ev, Err(InvalidInput))
    ELSE IF ev.arg_count = None THEN Return(ev, Err(InvalidInput))
    ELSE call_popped(ev, name, pop_args(ev.values, ev.arg_count[1], <<>>))

\* a variant of the Variable arm in which an unbound name reads as zero
eval_variable_default(ev, name) ==
    [ev EXCEPT !.values = Append(ev.values, IF is_variable(name) THEN get_variable(name) ELSE 0)]

\* the Variable arm: the value bound to the name, or InvalidInput
eval_variable(ev, name) ==
    IF is_variable(name)
    THEN [ev EXCEPT !.values = Append(ev.values, get_variable(name))]
    ELSE Return(ev, Err(InvalidInput))

\* the `match token` of rpn_eval's loop
match_rpn_token(e, token) ==
    CASE token.kind = "Number" -> [e EXCEPT !.values = Append(e.values, token.val)]
      [] token.kind = "Variable" -> eval_variable(e, token.name)
      [] token.kind = "Constant" ->
            IF is_constant(token.name)
            THEN [e EXCEPT !.values = Append(e.values, get_constant(token.name))]
            ELSE Return(e, Err(InvalidInput))
      [] token.kind = "ArgCount" ->
            IF e.arg_count # None /\ build = "debug" THEN Return(e, Panic)
            ELSE [e EXCEPT !.arg_count = Some(token.val)]
      [] token.kind = "UnaryOperator" -> eval_unary(e, token.name)
      [] token.kind = "BinaryOperator" -> eval_binary(e, token.name)
      [] token.kind = "Function" -> eval_function(e, token.name)
      [] OTHER -> Return(e, Err(InvalidInput))

rpn_token(ev, token) == match_rpn_token([ev EXCEPT !.invoked = <<>>], token)

\* the states of `for token in &rpn`: trace[1] is the state before the first token,
\* trace[i + 1] the state after rpn[i]; the trace ends where the function returns
RECURSIVE rpn_loop(_, _, _)
rpn_loop(rpn, trace, i) ==
    IF i > Len(rpn) \/ Last(trace).out.status # "Run" THEN trace
    ELSE rpn_loop(rpn, Append(trace, rpn_token(Last(trace), rpn[i])), i + 1)

\* a variant of final_value that returns the top of any non-empty stack
final_value_top(values) ==
    IF Len(values) >= 1 THEN Ok(values[Len(values)]) ELSE Err(InvalidExpression)

\* `if values.len() == 1 { Ok(values[0].clone()) } else { Err(InvalidExpression) }`
final_value(values) ==
    IF Len(values) = 1 THEN Ok(values[1]) ELSE Err(InvalidExpression)

\* what rpn_eval returns once its loop has ended in the state `last`
returned(last) ==
    IF last.out.status = "Run" THEN final_value(last.values) ELSE last.out

Evaluated(rpn, trace, out) ==
    [kind |-> out.kind, status |-> out.status, value |-> out.value,
     rpn |-> rpn, trace |-> trace]

eval_trace(rpn, trace) == Evaluated(rpn, trace, returned(Last(trace)))

\* `let rpn = shunting_yard::infix_to_rpn(tokens, context)?;` and the loop over it
eval_converted(converted) ==
    IF converted.status # "Ok" THEN converted
    ELSE eval_trace(converted.rpn, rpn_loop(converted.rpn, <<EvInit>>, 1))

\* rpn_eval (and Evaluator::eval_tokens, which only forwards to it)
rpn_eval(ts) == eval_converted(infix_to_rpn(ts))

----------------------------------------------------------------------------
(* Bounds and inputs *)

\* the longest token sequence enumerated exhaustively
MaxLen == 4

\* the most arguments of a generated function call
MaxArgs == 2

\* the longest expression over variables enumerated exhaustively
MaxVarLen == 3

\* the most set_variable calls of one behaviour
MaxSets == 2

Builds == {"debug", "release"}

\* the tokens the exhaustive sequences are made of
Alphabet ==
    {Number(2), Number(3), Variable("x"), BinaryOperator("-"), UnaryOperator("-"),
     Function("Max"), GroupingOpen("("), GroupingClose(")"), GroupingOpen("["),
     GroupingClose("]"), Comma}

SeqsUpTo(S, n) == UNION {[1..k -> S] : k \in 0..n}

ShortSeqs == SeqsUpTo(Alphabet, MaxLen)

\* `a op1 b op2 c` over three operands and the operators below; "@" is an operator
\* the caller registers, with any precedence and associativity
Operands == {Number(2), Number(3), Variable("x")}

OperatorNames == {"+", "*", "^", "@"}

PrecExprs ==
    {<<a, BinaryOperator(op1), b, BinaryOperator(op2), c>> :
        a, b, c \in Operands, op1, op2 \in OperatorNames}

\* function calls: Max with 1..MaxArgs arguments, each an atom, a parenthesised
\* number, a call of Min (of one or two arguments, or of a call), a parenthesised
\* call or a subtraction from a call; alone, or subtracted from another call
Atoms == {<<Number(2)>>, <<Constant("PI")>>}

Group(e) == <<GroupingOpen("(")>> \o e \o <<GroupingClose(")")>>

\* the call of f on the comma-separated list l
Call(f, l) == <<Function(f)>> \o Group(l)

\* the comma-separated lists of n expressions of S
RECURSIVE ArgLists(_, _)
ArgLists(S, n) ==
    IF n = 1 THEN S
    ELSE {l \o <<Comma>> \o e : l \in ArgLists(S, n - 1), e \in S}

Calls(f, S) == {Call(f, l) : l \in UNION {ArgLists(S, n) : n \in 1..MaxArgs}}

PlainArgs == Atoms \cup {Group(<<Number(3)>>)}

InnerCalls ==
    {Call("Min", <<Number(2)>>),
     Call("Min", <<Number(2), Comma, Constant("PI")>>),
     Call("Min", Call("Min", <<Number(2)>>) \o <<Comma, Constant("PI")>>)}

CallArgs ==
    PlainArgs \cup InnerCalls
        \cup {Group(Call("Min", <<Number(2)>>)),
              <<Number(3), BinaryOperator("-")>> \o Call("Min", <<Number(2)>>)}

CallExprs ==
    Calls("Max", CallArgs)
        \cup {Call("Sum", <<Number(2)>>) \o <<BinaryOperator("-")>> \o c :
                c \in Calls("Max", CallArgs)}

\* expressions over variables, and the set_variable calls made between evaluations
VarAlphabet ==
    {Number(2), Variable("x"), Variable("Y"), BinaryOperator("*"), UnaryOperator("-")}

VarExprs == SeqsUpTo(VarAlphabet, MaxVarLen)

VarNames == {"x", "X", "y", "PI"}

VarValues == {5, 10}

----------------------------------------------------------------------------
(* The state machine: a context is built, the caller holds a token         *)
(* sequence, and the operations of the API are applied in any order         *)

NoResult == [kind |-> "", status |-> "None", value |-> 0, rpn |-> <<>>, trace |-> <<>>]

\* a call that returns ()
Unit == [kind |-> "", status |-> "Unit", value |-> 0, rpn |-> <<>>, trace |-> <<>>]

\* Option<N> returned by set_variable: the value replaced, if any
Replaced(present, v) ==
    [kind |-> "", status |-> IF present THEN "Some" ELSE "None",
     value |-> IF present THEN v ELSE 0, rpn |-> <<>>, trace |-> <<>>]

\* DefaultContext::new_checked_with_config(cfg)
NewChecked(cfg) ==
    /\ variables = <<>>
    /\ constants = CheckedConstants
    /\ functions = CheckedFunctions
    /\ binary_functions = CheckedBinaryFunctions
    /\ unary_functions = CheckedUnaryFunctions
    /\ config = cfg
    /\ call = "new"
    /\ result = NoResult
    /\ set_log = <<>>

\* the configuration of eval_test: Config::new().with_group_symbol('[', ']')
TestConfig == with_group_symbol(ConfigNew, "[", "]")

\* a checked context, a build, and the token sequence the caller holds
Init ==
    /\ build \in Builds
    /\ tokens \in ShortSeqs
    /\ NewChecked(TestConfig)

\* a variant of Insert that keeps the value of a key already present
Insert_if_absent(map, key, value) ==
    [k \in DOMAIN map \cup {key} |-> IF k \in DOMAIN map THEN map[k] ELSE value]

\* the map after HashMap::insert(key, value)
Insert(map, key, value) ==
    [k \in DOMAIN map \cup {key} |-> IF k = key THEN value ELSE map[k]]

\* a variant of EvalTokens that binds the variable y to zero as it evaluates
EvalTokens_binding_y ==
    /\ call' = "eval_tokens"
    /\ result' = rpn_eval(tokens)
    /\ variables' = Insert(variables, "y", 0)
    /\ UNCHANGED <<constants, functions, binary_functions, unary_functions, config,
                   build, tokens, set_log>>

\* Evaluator::eval_tokens(tokens)
EvalTokens ==
    /\ call' = "eval_tokens"
    /\ result' = rpn_eval(tokens)
    /\ UNCHANGED <<context, build, tokens, set_log>>

\* evaluator::infix_to_rpn(tokens, context)
InfixToRpn ==
    /\ call' = "infix_to_rpn"
    /\ result' = infix_to_rpn(tokens)
    /\ UNCHANGED <<context, build, tokens, set_log>>

\* a variant of SetVariable that looks the name up among the constants as written,
\* not through its case-insensitive key
SetVariable_exact_name(name, value) ==
    /\ Len(set_log) < MaxSets
    /\ call' = "set_variable"
    /\ IF name \in DOMAIN constants
       THEN /\ result' = RpnPanic
            /\ UNCHANGED <<variables, set_log>>
       ELSE /\ result' = Replaced(is_variable(name),
                                  IF is_variable(name) THEN get_variable(name) ELSE 0)
            /\ variables' = Insert(variables, Key(name), value)
            /\ set_log' = Append(set_log, <<Key(name), value>>)
    /\ UNCHANGED <<constants, functions, binary_functions, unary_functions, config,
                   build, tokens>>

\* DefaultContext::set_variable(name, value); a behaviour makes at most MaxSets calls
SetVariable(name, value) ==
    /\ Len(set_log) < MaxSets
    /\ call' = "set_variable"
    /\ IF is_constant(name)
       THEN /\ result' = RpnPanic
            /\ UNCHANGED <<variables, set_log>>
       ELSE /\ result' = Replaced(is_variable(name),
                                  IF is_variable(name) THEN get_variable(name) ELSE 0)
            /\ variables' = Insert(variables, Key(name), value)
            /\ set_log' = Append(set_log, <<Key(name), value>>)
    /\ UNCHANGED <<constants, functions, binary_functions, unary_functions, config,
                   build, tokens>>

\* DefaultContext::add_binary_function(func): a name already registered panics
AddBinaryFunction(func) ==
    /\ call' = "add_binary_function"
    /\ IF is_binary_function(func.name)
       THEN /\ result' = RpnPanic
            /\ UNCHANGED binary_functions
       ELSE /\ result' = Unit
            /\ binary_functions' = Insert(binary_functions, Key(func.name), func)
    /\ UNCHANGED <<variables, constants, functions, unary_functions, config,
                   build, tokens, set_log>>

\* DefaultContext::add_constant(name, value): HashMap::insert, whatever the maps hold
AddConstant(name, value) ==
    /\ call' = "add_constant"
    /\ result' = Unit
    /\ constants' = Insert(constants, Key(name), value)
    /\ UNCHANGED <<variables, functions, binary_functions, unary_functions, config,
                   build, tokens, set_log>>

\* DefaultContext::add_function(func): a name already registered panics
AddFunction(func) ==
    /\ call' = "add_function"
    /\ IF is_a_function(func.name)
       THEN /\ result' = RpnPanic
            /\ UNCHANGED functions
       ELSE /\ result' = Unit
            /\ functions' = Insert(functions, Key(func.name), func)
    /\ UNCHANGED <<variables, constants, binary_functions, unary_functions, config,
                   build, tokens, set_log>>

\* a variant of AddUnaryFunction that refuses a name registered in any callable map
AddUnaryFunction_any_map(func) ==
    /\ call' = "add_unary_function"
    /\ IF is_unary_function(func.name) \/ is_binary_function(func.name)
            \/ is_a_function(func.name)
       THEN /\ result' = RpnPanic
            /\ UNCHANGED unary_functions
       ELSE /\ result' = Unit
            /\ unary_functions' = Insert(unary_functions, Key(func.name), func)
    /\ UNCHANGED <<variables, constants, functions, binary_functions, config,
                   build, tokens, set_log>>

\* DefaultContext::add_unary_function(func): a name already registered panics
AddUnaryFunction(func) ==
    /\ call' = "add_unary_function"
    /\ IF is_unary_function(func.name)
       THEN /\ result' = RpnPanic
            /\ UNCHANGED unary_functions
       ELSE /\ result' = Unit
            /\ unary_functions' = Insert(unary_functions, Key(func.name), func)
    /\ UNCHANGED <<variables, constants, functions, binary_functions, config,
                   build, tokens, set_log>>

Next ==
    \/ EvalTokens
    \/ InfixToRpn

Spec == Init /\ [][Next]_vars

\* precedence and associativity: the caller holds `a op1 b op2 c` and may register
\* the operator "@" (or try to register "+" again) before converting
InitPrec ==
    /\ build \in Builds
    /\ tokens \in PrecExprs
    /\ NewChecked(TestConfig)

NextPrec ==
    \/ InfixToRpn
    \/ \E name \in {"@", "+"}, prec \in Precedences, assoc \in Associativities :
            AddBinaryFunction(BinaryFn(name, prec, assoc, "sub"))

SpecPrec == InitPrec /\ [][NextPrec]_vars

\* function calls: the caller holds a well-formed expression made of calls
InitCalls ==
    /\ build \in Builds
    /\ tokens \in CallExprs
    /\ NewChecked(TestConfig)

NextCalls ==
    \/ InfixToRpn
    \/ EvalTokens

SpecCalls == InitCalls /\ [][NextCalls]_vars

\* variables: set_variable calls interleaved with conversions and evaluations, with
\* implicit multiplication on or off
InitVars ==
    /\ build \in Builds
    /\ tokens \in VarExprs
    /\ \E b \in BOOLEAN : NewChecked(with_implicit_mul(TestConfig, b))

NextVars ==
    \/ EvalTokens
    \/ InfixToRpn
    \/ \E name \in VarNames, value \in VarValues : SetVariable(name, value)

SpecVars == InitVars /\ [][NextVars]_vars

\* the context: set_variable, add_constant and the three add_*_function calls in any
\* order on a checked context, with names that differ in case or are registered in
\* another map
CtxVarNames == {"x", "X", "y"}

CtxVarValues == {5}

CtxConstNames == {"X", "Pi"}

CtxConstValues == {7}

NewFunctions == {Fn(name, "sum") : name \in {"MAX", "-"}}

NewBinaryFunctions == {BinaryFn(name, LOW, "Left", "sub") : name \in {"+", "Mod", "!", "max"}}

NewUnaryFunctions == {UnaryFn(name, "Prefix", "minus") : name \in {"-", "*", "Sum"}}

InitCtx ==
    /\ build \in Builds
    /\ tokens = <<>>
    /\ NewChecked(TestConfig)

NextCtx ==
    \/ \E name \in CtxVarNames, value \in CtxVarValues : SetVariable(name, value)
    \/ \E name \in CtxConstNames, value \in CtxConstValues : AddConstant(name, value)
    \/ \E func \in NewFunctions : AddFunction(func)
    \/ \E func \in NewBinaryFunctions : AddBinaryFunction(func)
    \/ \E func \in NewUnaryFunctions : AddUnaryFunction(func)

SpecCtx == InitCtx /\ [][NextCtx]_vars

\* commas: expressions made of calls and plain groups, with up to MaxCommas commas
\* (each alone or followed by an operand) inserted anywhere
MaxCommas == 2

CommaBases ==
    {<<Number(2)>>,
     Group(<<Number(2)>>),
     Call("Max", <<Number(2)>>),
     Call("Max", Group(<<Number(2)>>)),
     Call("Max", Call("Min", <<Number(2)>>)),
     Group(Call("Max", <<Number(2)>>)),
     Call("Max", <<Number(2)>>) \o <<BinaryOperator("-")>> \o Group(<<Number(3)>>),
     Call("Max", Call("Min", <<Number(2)>>) \o <<BinaryOperator("-")>> \o Group(<<Number(3)>>)),
     Call("Max", <<UnaryOperator("-")>> \o Group(<<Number(2)>>)),
     <<GroupingOpen("[")>> \o Call("Max", <<Number(2)>>) \o <<GroupingClose("]")>>}

CommaPieces == {<<Comma>>, <<Comma, Number(3)>>}

\* e with the piece inserted after its first i tokens
InsertAt(e, i, piece) == SubSeq(e, 1, i) \o piece \o SubSeq(e, i + 1, Len(e))

RECURSIVE WithCommas(_, _)
WithCommas(S, n) ==
    IF n = 0 THEN S
    ELSE LET T == WithCommas(S, n - 1)
         IN  T \cup UNION {{InsertAt(e, i, piece) : i \in 0..Len(e), piece \in CommaPieces} :
                            e \in T}

CommaExprs == WithCommas(CommaBases, MaxCommas)

InitCommas ==
    /\ build \in Builds
    /\ tokens \in CommaExprs
    /\ NewChecked(TestConfig)

NextCommas ==
    \/ InfixToRpn
    \/ EvalTokens

SpecCommas == InitCommas /\ [][NextCommas]_vars

\* implicit multiplication: two operands written side by side, alone, after `a op`
\* or before `^ 2`, converted and evaluated with the option on or off and x bound
\* or not
MulLefts ==
    {<<Number(2)>>,
     Group(<<Number(2)>>),
     Group(<<Number(2), BinaryOperator("-"), Number(3)>>),
     Call("Max", <<Number(2), Comma, Number(3)>>)}

MulRights ==
    {<<Number(3)>>, <<Variable("x")>>, <<Constant("PI")>>, Group(<<Number(3)>>),
     Call("Max", <<Number(3)>>)}

MulPrefixes ==
    {<<>>, <<Number(6), BinaryOperator("/")>>, <<Number(2), BinaryOperator("^")>>,
     <<Number(3), BinaryOperator("-")>>}

MulSuffixes == {<<>>, <<BinaryOperator("^"), Number(2)>>}

MulExprs ==
    {pre \o l \o r \o suf :
        pre \in MulPrefixes, l \in MulLefts, r \in MulRights, suf \in MulSuffixes}

MulVarValues == {10}

InitMul ==
    /\ build \in Builds
    /\ tokens \in MulExprs
    /\ \E b \in BOOLEAN : NewChecked(with_implicit_mul(ConfigNew, b))

NextMul ==
    \/ EvalTokens
    \/ InfixToRpn
    \/ \E value \in MulVarValues : SetVariable("x", value)

SpecMul == InitMul /\ [][NextMul]_vars

\* the Config builder: with_group_symbol and with_implicit_mul chained on
\* Config::default(), before any context takes the Config
GroupSymbols == {"(", ")", "[", "]", "{", "}"}

InitConfig ==
    /\ build \in Builds
    /\ tokens = <<>>
    /\ variables = <<>>
    /\ constants = <<>>
    /\ functions = <<>>
    /\ binary_functions = <<>>
    /\ unary_functions = <<>>
    /\ config = ConfigDefault
    /\ call = "default"
    /\ result = NoResult
    /\ set_log = <<>>

\* Config::with_group_symbol(open, close): GroupingSymbol::new asserts open # close,
\* and a symbol already in the map panics; the chain ends there
WithGroupSymbol(open, close) ==
    /\ call' = "with_group_symbol"
    /\ IF with_group_symbol_ok(config, open, close)
       THEN /\ config' = with_group_symbol(config, open, close)
            /\ result' = Unit
       ELSE /\ result' = RpnPanic
            /\ UNCHANGED config
    /\ UNCHANGED <<variables, constants, functions, binary_functions, unary_functions,
                   build, tokens, set_log>>

\* Config::with_implicit_mul()
WithImplicitMul ==
    /\ call' = "with_implicit_mul"
    /\ config' = with_implicit_mul(config, TRUE)
    /\ result' = Unit
    /\ UNCHANGED <<variables, constants, functions, binary_functions, unary_functions,
                   build, tokens, set_log>>

NextConfig ==
    \/ \E open, close \in GroupSymbols : WithGroupSymbol(open, close)
    \/ WithImplicitMul

SpecConfig == InitConfig /\ [][NextConfig]_vars

\* the two preloaded contexts: an empty context, rebuilt by either factory, on which
\* calls of the functions of ops::math, the constants and the unary operators of
\* ops::math are converted and evaluated
FlavorExprs ==
    {Call(f, <<Number(2)>>) :
        f \in {"Max", "Min", "Floor", "Ceil", "Truncate", "Round", "Sign"}}
        \cup {Call("Floor", <<Number(2), Comma, Number(3)>>),
              Call("Sign", <<Number(0)>>),
              Call("Max", <<Constant("PI"), Comma, Constant("E")>>),
              <<Constant("PI")>>,
              <<UnaryOperator("+"), Number(2)>>,
              <<Number(3), UnaryOperator("!")>>}

FlavorConfigs == {ConfigNew, TestConfig, with_implicit_mul(ConfigNew, TRUE)}

\* DefaultContext::new_with_config(config)
InitFlavors ==
    /\ build \in Builds
    /\ tokens \in FlavorExprs
    /\ variables = <<>>
    /\ constants = <<>>
    /\ functions = <<>>
    /\ binary_functions = <<>>
    /\ unary_functions = <<>>
    /\ config \in FlavorConfigs
    /\ call = "new_with_config"
    /\ result = NoResult
    /\ set_log = <<>>

\* the caller replaces its context by DefaultContext::new_checked_with_config(cfg)
NewCheckedWithConfig(cfg) ==
    /\ call' = "new_checked_with_config"
    /\ variables' = <<>>
    /\ constants' = CheckedConstants
    /\ functions' = CheckedFunctions
    /\ binary_functions' = CheckedBinaryFunctions
    /\ unary_functions' = CheckedUnaryFunctions
    /\ config' = cfg
    /\ result' = NoResult
    /\ set_log' = <<>>
    /\ UNCHANGED <<build, tokens>>

\* the caller replaces its context by DefaultContext::new_unchecked_with_config(cfg)
NewUncheckedWithConfig(cfg) ==
    /\ call' = "new_unchecked_with_config"
    /\ variables' = <<>>
    /\ constants' = CheckedConstants
    /\ functions' = UncheckedFunctions
    /\ binary_functions' = UncheckedBinaryFunctions
    /\ unary_functions' = UncheckedUnaryFunctions
    /\ config' = cfg
    /\ result' = NoResult
    /\ set_log' = <<>>
    /\ UNCHANGED <<build, tokens>>

NextFlavors ==
    \/ \E cfg \in FlavorConfigs : NewCheckedWithConfig(cfg)
    \/ \E cfg \in FlavorConfigs : NewUncheckedWithConfig(cfg)
    \/ EvalTokens
    \/ InfixToRpn

SpecFlavors == InitFlavors /\ [][NextFlavors]_vars

\* failing callables: an expression whose callable returns an error (a division by
\* zero, the factorial of a negative, a power out of range, Max of nothing, Floor of
\* two arguments), alone, after `3 -` or before `+ 3`, and expressions that succeed
FailingCalls ==
    {<<Number(2), BinaryOperator("/"), Number(0)>>,
     <<Number(2), BinaryOperator("mod"), Number(0)>>,
     <<Number(2), BinaryOperator("^"), Number(16)>>,
     <<UnaryOperator("-"), Number(3), UnaryOperator("!")>>,
     <<Function("Max"), GroupingOpen("("), GroupingClose(")")>>,
     Call("Floor", <<Number(2), Comma, Number(3)>>),
     Call("Max", <<Number(2), BinaryOperator("/"), Number(0), Comma, Number(3)>>),
     <<Number(6), BinaryOperator("/"), Number(2)>>,
     <<Number(3), UnaryOperator("!")>>,
     <<Number(8), UnaryOperator("!")>>,
     Call("Floor", <<Number(2)>>)}

FailingPrefixes == {<<>>, <<Number(3), BinaryOperator("-")>>}

FailingSuffixes == {<<>>, <<BinaryOperator("+"), Number(3)>>, <<UnaryOperator("!")>>}

FailingExprs ==
    {pre \o e \o suf : pre \in FailingPrefixes, e \in FailingCalls, suf \in FailingSuffixes}

InitFailing ==
    /\ build \in Builds
    /\ tokens \in FailingExprs
    /\ NewChecked(TestConfig)

NextFailing ==
    \/ EvalTokens
    \/ InfixToRpn

SpecFailing == InitFailing /\ [][NextFailing]_vars

\* operators without their operands: every sequence of up to MaxOpLen numbers,
\* binary operators and prefix or postfix unary operators, `2^`, `3+` and `^3!`
\* among them
MaxOpLen == 3

OpAlphabet ==
    {Number(2), Number(3), BinaryOperator("^"), BinaryOperator("+"), UnaryOperator("-"),
     UnaryOperator("!")}

OpExprs == SeqsUpTo(OpAlphabet, MaxOpLen)

InitOps ==
    /\ build \in Builds
    /\ tokens \in OpExprs
    /\ NewChecked(TestConfig)

NextOps ==
    \/ EvalTokens
    \/ InfixToRpn

SpecOps == InitOps /\ [][NextOps]_vars

\* argument counts: calls of Sum and Max with no, one or two arguments, one of which
\* may be a call with no or one argument, alone, after `5 +`, `5 *` or `-` and
\* before `+ 3`; and inputs that hold an ArgCount token themselves
ArityArgs ==
    {<<>>, <<Number(2)>>, <<Number(2), Comma, Number(3)>>}
        \cup UNION {{Call(g, <<>>), Call(g, <<Number(2)>>),
                     <<Number(2), Comma>> \o Call(g, <<>>)} : g \in {"Sum", "Max"}}

ArityCalls == {Call(f, l) : f \in {"Sum", "Max"}, l \in ArityArgs}

ArityPrefixes ==
    {<<>>, <<Number(5), BinaryOperator("+")>>, <<Number(5), BinaryOperator("*")>>,
     <<UnaryOperator("-")>>}

AritySuffixes == {<<>>, <<BinaryOperator("+"), Number(3)>>}

ArityExprs ==
    {pre \o c \o suf : pre \in ArityPrefixes, c \in ArityCalls, suf \in AritySuffixes}
        \cup {<<ArgCount(1), Function("Sum")>>,
              <<Number(2), ArgCount(1), Function("Sum")>>,
              <<Function("Sum"), GroupingOpen("("), ArgCount(2), Number(2), GroupingClose(")")>>}

InitArity ==
    /\ build \in Builds
    /\ tokens \in ArityExprs
    /\ NewChecked(TestConfig)

NextArity ==
    \/ EvalTokens
    \/ InfixToRpn

SpecArity == InitArity /\ [][NextArity]_vars

\* prefix operators: one or two prefix operators before a number, a parenthesised
\* number or a call, followed by an additive or multiplicative operator and a number
PrefixChains == {<<UnaryOperator("-")>>, <<UnaryOperator("-"), UnaryOperator("-")>>,
                 <<UnaryOperator("+"), UnaryOperator("-")>>}

PrefixOperands ==
    {<<Number(2)>>, Group(<<Number(2)>>), Call("Max", <<Number(2), Comma, Number(3)>>)}

PrefixOperators == {"+", "-", "*"}

PrefixRights == {Number(3), Number(5)}

PrefixExprs ==
    {pre \o e \o <<BinaryOperator(op), b>> :
        pre \in PrefixChains, e \in PrefixOperands, op \in PrefixOperators,
        b \in PrefixRights}

InitPrefix ==
    /\ build \in Builds
    /\ tokens \in PrefixExprs
    /\ NewChecked(TestConfig)

NextPrefix ==
    \/ EvalTokens
    \/ InfixToRpn

SpecPrefix == InitPrefix /\ [][NextPrefix]_vars

\* a name before a group: a Variable or a Constant directly followed by a
\* parenthesised expression, as in `5x(2)`, alone or inside a longer expression,
\* with implicit multiplication on or off and x bound or not
NamePrefixes ==
    {<<>>, <<Number(5)>>, <<Number(5), BinaryOperator("+")>>, <<UnaryOperator("-")>>}

Names == {Variable("x"), Constant("PI")}

NameGroups ==
    {Group(<<Number(2)>>), Group(<<Number(2), BinaryOperator("-"), Number(3)>>),
     Group(<<Variable("x")>>)}

NameSuffixes == {<<>>, <<BinaryOperator("+"), Number(3)>>, <<BinaryOperator("^"), Number(2)>>}

NameExprs ==
    {pre \o <<v>> \o g \o suf :
        pre \in NamePrefixes, v \in Names, g \in NameGroups, suf \in NameSuffixes}

InitNames ==
    /\ build \in Builds
    /\ tokens \in NameExprs
    /\ \E b \in BOOLEAN : NewChecked(with_implicit_mul(ConfigNew, b))

NextNames ==
    \/ EvalTokens
    \/ InfixToRpn
    \/ \E value \in MulVarValues : SetVariable("x", value)

SpecNames == InitNames /\ [][NextNames]_vars

----------------------------------------------------------------------------
(* Properties.  The predicates below read a token sequence on their own,    *)
(* without the conversion, so that what the conversion did can be compared  *)
(* with what the expression says.                                           *)

IsOperand(t) == t.kind \in {"Number", "Variable", "Constant"}

\* the configured pair: `open` opens what `close` closes
Pairs(open, close) ==
    /\ has_group_symbol(open)
    /\ get_group_symbol(open).group_open = open
    /\ get_group_symbol(open).group_close = close

\* a left-to-right scan with the stack of the groups still open: a close with no
\* open, a close of another pair, or an open left at the end
RECURSIVE Unbalanced(_, _, _)
Unbalanced(ts, i, opens) ==
    IF i > Len(ts) THEN opens # <<>>
    ELSE IF is_grouping_open(ts[i]) THEN Unbalanced(ts, i + 1, Append(opens, ts[i].name))
    ELSE IF ~is_grouping_close(ts[i]) THEN Unbalanced(ts, i + 1, opens)
    ELSE IF opens = <<>> THEN TRUE
    ELSE IF ~Pairs(Last(opens), ts[i].name) THEN TRUE
    ELSE Unbalanced(ts, i + 1, Front(opens))

\* an open directly followed by its close, not the argument list of a function call
EmptyGroup(ts) ==
    \E i \in 1..(Len(ts) - 1) :
        /\ is_grouping_open(ts[i])
        /\ is_grouping_close(ts[i + 1])
        /\ Pairs(ts[i].name, ts[i + 1].name)
        /\ (i = 1 \/ ~is_function(ts[i - 1]))

BadGrouping(ts) == Unbalanced(ts, 1, <<>>) \/ EmptyGroup(ts)

AdjacentOperands(ts) ==
    \E i \in 1..(Len(ts) - 1) : IsOperand(ts[i]) /\ IsOperand(ts[i + 1])

\* the grouping-open that encloses position p (0 if none): a scan to the left of p
RECURSIVE EnclosingOpen(_, _, _)
EnclosingOpen(ts, i, depth) ==
    IF i < 1 THEN 0
    ELSE IF is_grouping_close(ts[i]) THEN EnclosingOpen(ts, i - 1, depth + 1)
    ELSE IF ~is_grouping_open(ts[i]) THEN EnclosingOpen(ts, i - 1, depth)
    ELSE IF depth = 0 THEN i
    ELSE EnclosingOpen(ts, i - 1, depth - 1)

OpenOf(ts, p) == EnclosingOpen(ts, p - 1, 0)

\* the call sites of ts, each named by the position of the close of its argument list
CallCloses(ts) ==
    {m \in 1..Len(ts) :
        /\ is_grouping_close(ts[m])
        /\ OpenOf(ts, m) > 1
        /\ is_function(ts[OpenOf(ts, m) - 1])}

\* the commas that separate the arguments of the call closed at m
ArgCommas(ts, m) ==
    {p \in (OpenOf(ts, m) + 1)..(m - 1) : ts[p] = Comma /\ OpenOf(ts, p) = OpenOf(ts, m)}

\* the number of arguments written at the call closed at m
ArgsOf(ts, m) ==
    IF m = OpenOf(ts, m) + 1 THEN 0 ELSE 1 + Cardinality(ArgCommas(ts, m))

\* the calls are closed, and their Function tokens emitted, in the order of their closes
Rank(ts, m) == Cardinality({c \in CallCloses(ts) : c <= m})

FunctionPositions(rpn) == {j \in 1..Len(rpn) : is_function(rpn[j])}

NthFunction(rpn, k) ==
    CHOOSE j \in FunctionPositions(rpn) :
        Cardinality({i \in FunctionPositions(rpn) : i <= j}) = k

\* where the argument that starts at `from` ends: before the next of the commas of
\* the call closed at m, or before m
ArgEnd(commas, m, from) ==
    CHOOSE e \in from..m :
        /\ e = m \/ e \in commas
        /\ \A q \in from..(e - 1) : q \notin commas

\* the RPN of each argument of the call closed at m, converted on its own, in order
RECURSIVE ArgsRpn(_, _, _, _)
ArgsRpn(ts, commas, m, from) ==
    LET e == ArgEnd(commas, m, from)
        rpn == infix_to_rpn(SubSeq(ts, from, e - 1)).rpn
    IN  IF e = m THEN rpn ELSE rpn \o ArgsRpn(ts, commas, m, e + 1)

\* the ArgCount and Function emitted for the call closed at m, at j - 1 and j of rpn
CallEmitted(ts, rpn, m, j, args) ==
    /\ rpn[j] = ts[OpenOf(ts, m) - 1]
    /\ j - 2 >= Len(args)
    /\ rpn[j - 1] = ArgCount(ArgsOf(ts, m))
    /\ SubSeq(rpn, j - 1 - Len(args), j - 2) = args

\* the operators registered for `a op1 b op2 c`, and which of them comes out first
IsPrecExpr(ts) ==
    /\ Len(ts) = 5
    /\ IsOperand(ts[1]) /\ IsOperand(ts[3]) /\ IsOperand(ts[5])
    /\ ts[2].kind = "BinaryOperator" /\ ts[4].kind = "BinaryOperator"
    /\ Key(ts[2].name) \in DOMAIN binary_functions
    /\ Key(ts[4].name) \in DOMAIN binary_functions

Prec(t) == binary_functions[Key(t.name)].precedence

Assoc(t) == binary_functions[Key(t.name)].associativity

UnclosedAtDrain(looped) ==
    /\ looped.err = ""
    /\ \E i \in 1..Len(looped.operators) : is_grouping_open(looped.operators[i])

\* C2: when the input is exhausted with a grouping-open still on the operator
\* stack, infix_to_rpn returns an InvalidExpression error and no RPN sequence
C2_DrainRejectsUnclosedGroup ==
    (call = "infix_to_rpn" /\ UnclosedAtDrain(sy_loop(tokens, SyInit, 0))) =>
        (result.status = "Err" /\ result.kind = InvalidExpression)

\* C3: evaluating a token sequence with an unclosed open, a close without its open,
\* a close of another pair, or an empty pair that is no argument list returns an
\* InvalidExpression or InvalidInput error, never a value
C3_BadGroupingIsAnError ==
    (call = "eval_tokens" /\ BadGrouping(tokens)) =>
        (result.status = "Err" /\ result.kind \in {InvalidExpression, InvalidInput})

\* C4: each call written with n >= 1 arguments and closed by its grouping-close has
\* ArgCount(n) directly before its Function token in the RPN, both placed directly
\* after the RPN of its n arguments
C4_ArgCountBeforeFunction ==
    call = "infix_to_rpn" =>
        /\ result.status = "Ok"
        /\ Cardinality(FunctionPositions(result.rpn)) = Cardinality(CallCloses(tokens))
        /\ \A m \in CallCloses(tokens) :
              ArgsOf(tokens, m) >= 1 =>
                  CallEmitted(tokens, result.rpn, m,
                              NthFunction(result.rpn, Rank(tokens, m)),
                              ArgsRpn(tokens, ArgCommas(tokens, m), m, OpenOf(tokens, m) + 1))

\* `Max((3), Min(2, PI))`: a call with two arguments nested in a call with two
\* arguments, the first of them parenthesised
C4_Witness ==
    /\ call = "infix_to_rpn"
    /\ tokens = <<Function("Max")>>
                    \o Group(Group(<<Number(3)>>) \o <<Comma, Function("Min")>>
                                \o Group(<<Number(2), Comma, Constant("PI")>>))
    /\ result.rpn = <<Number(3), Number(2), Constant("PI"), ArgCount(2), Function("Min"),
                      ArgCount(2), Function("Max")>>

\* C5: rpn_eval returns a value only if the value stack holds exactly one element,
\* the result, once every RPN token is processed; with none or several it returns
\* InvalidExpression
C5_FinalStackHoldsOneValue ==
    (call = "eval_tokens" /\ result.trace # <<>>) =>
        LET last == Last(result.trace)
            done == last.out.status = "Run" /\ Len(result.trace) = Len(result.rpn) + 1
        IN  /\ result.status = "Ok" => (done /\ last.values = <<result.value>>)
            /\ (done /\ Len(last.values) # 1)
                    => (result.status = "Err" /\ result.kind = InvalidExpression)

\* `2 3`: every RPN token is processed and two values are left
C5_Witness ==
    /\ call = "eval_tokens"
    /\ tokens = <<Number(2), Number(3)>>
    /\ Len(result.trace) = 3
    /\ Last(result.trace).values = <<2, 3>>
    /\ result.status = "Err"
    /\ result.kind = InvalidExpression

\* C6: with implicit multiplication off, evaluating an expression with two operands
\* adjacent and no operator between them returns an error, not a value
C6_AdjacentOperandsRejected ==
    (call = "eval_tokens" /\ ~config.implicit_mul /\ AdjacentOperands(tokens)) =>
        result.status # "Ok"

\* the step of rpn_eval at the BinaryOperator rpn[i]: the call it makes gets the
\* value below the top as lhs and the top as rhs, and its result replaces the two
BinaryStep(rpn, trace, i) ==
    LET before == trace[i].values
        n == Len(before)
        after == trace[i + 1]
    IN  after.invoked # <<>> =>
            /\ n >= 2
            /\ after.invoked[1].args = <<before[n - 1], before[n]>>
            /\ after.out.status = "Run" =>
                  after.values =
                      Append(SubSeq(before, 1, n - 2),
                             call_binary(get_binary_function(rpn[i].name),
                                         before[n - 1], before[n]).value)

\* what `a op b` returns, given what call(a, b) returns
ReturnsCall(r) ==
    /\ result.status = r.status
    /\ result.kind = r.kind
    /\ result.value = r.value

\* C7: at a BinaryOperator token rpn_eval passes the value pushed last as the
\* right-hand operand and the one pushed before it as the left-hand operand, so
\* `a op b` evaluates to call(a, b), not call(b, a)
C7_BinaryOperandOrder ==
    call = "eval_tokens" =>
        /\ \A i \in 1..(Len(result.trace) - 1) :
              result.rpn[i].kind = "BinaryOperator" =>
                  BinaryStep(result.rpn, result.trace, i)
        /\ \A a, b \in {2, 3} :
              tokens = <<Number(a), BinaryOperator("-"), Number(b)>> =>
                  ReturnsCall(call_binary(get_binary_function("-"), a, b))

\* `2 - 3` evaluated: -1, where call(3, 2) is 1
C7_Witness ==
    /\ call = "eval_tokens"
    /\ tokens = <<Number(2), BinaryOperator("-"), Number(3)>>
    /\ result.status = "Ok"
    /\ result.value = -1
    /\ result.trace[4].invoked = Invoked("-", <<2, 3>>)

\* the step of rpn_eval at the Function rpn[i] with arg_count = Some(k): the
\* function gets the k values on top of the stack in the order they were pushed,
\* and its result replaces them
FunctionStep(rpn, trace, i) ==
    LET before == trace[i].values
        n == Len(before)
        k == trace[i].arg_count[1]
        after == trace[i + 1]
    IN  /\ k <= n
        /\ after.invoked = Invoked(rpn[i].name, SubSeq(before, n - k + 1, n))
        /\ after.out.status = "Run" =>
              /\ after.arg_count = None
              /\ after.values =
                    Append(SubSeq(before, 1, n - k),
                           call_function(get_function(rpn[i].name),
                                         SubSeq(before, n - k + 1, n)).value)

\* C8: at a Function token with arg_count = Some(k) the function is invoked with
\* exactly the k values pushed last, in source order; they leave the stack, the
\* result is pushed and arg_count is None again
C8_FunctionTakesItsArguments ==
    call = "eval_tokens" =>
        \A i \in 1..(Len(result.trace) - 1) :
            (is_function(result.rpn[i]) /\ is_a_function(result.rpn[i].name)
                    /\ result.trace[i].arg_count # None)
                => FunctionStep(result.rpn, result.trace, i)

\* the token sequence with a number written for every variable
AsNumbers(ts) ==
    [i \in 1..Len(ts) |-> IF ts[i].kind = "Variable" THEN Number(2) ELSE ts[i]]

\* the conversion takes a variable, bound or not, as it takes a number: the same
\* outcome and, where no multiplication is injected, the same RPN
ConvertsAsNumbers(converted) ==
    /\ result.status = converted.status
    /\ result.kind = converted.kind
    /\ ~config.implicit_mul => AsNumbers(result.rpn) = converted.rpn

\* the step of rpn_eval at the Variable rpn[i] that has no binding: the evaluation
\* ends there with InvalidInput
UnboundStep(trace, i) ==
    /\ Len(trace) = i + 1
    /\ trace[i + 1].values = trace[i].values
    /\ result.status = "Err"
    /\ result.kind = InvalidInput

\* C9: a Variable token whose name has no binding is accepted by infix_to_rpn, and
\* the failure occurs only in rpn_eval, which returns InvalidInput at that token
C9_UnboundVariableFailsAtEval ==
    /\ call = "infix_to_rpn" =>
          /\ ConvertsAsNumbers(infix_to_rpn(AsNumbers(tokens)))
          /\ \A v \in {"x", "Y"} :
                /\ tokens = <<Variable(v)>> => result = RpnOk(tokens)
                /\ tokens = <<Number(2), BinaryOperator("*"), Variable(v)>>
                      => result = RpnOk(<<Number(2), Variable(v), BinaryOperator("*")>>)
    /\ call = "eval_tokens" =>
          \A i \in 1..(Len(result.trace) - 1) :
              (result.rpn[i].kind = "Variable" /\ Key(result.rpn[i].name) \notin DOMAIN variables)
                  => UnboundStep(result.trace, i)

\* `2 * Y` evaluated with x bound and Y not: converted to `2 Y *`, InvalidInput at Y
C9_Witness ==
    /\ call = "eval_tokens"
    /\ tokens = <<Number(2), BinaryOperator("*"), Variable("Y")>>
    /\ DOMAIN variables = {"x"}
    /\ result.rpn = <<Number(2), Variable("Y"), BinaryOperator("*")>>
    /\ Len(result.trace) = 3
    /\ result.status = "Err"
    /\ result.kind = InvalidInput

\* the set_variable calls made so far on the key, by their place in the log
SetsOf(key) == {i \in 1..Len(set_log) : set_log[i][1] = key}

\* the value given by the most recent of them
MostRecent(key) ==
    set_log[CHOOSE i \in SetsOf(key) : \A j \in SetsOf(key) : j <= i][2]

\* the step of rpn_eval at the Variable rpn[i]: it pushes the value set last
VariableStep(rpn, trace, i) ==
    /\ trace[i + 1].out.status = "Run"
    /\ trace[i + 1].values = Append(trace[i].values, MostRecent(Key(rpn[i].name)))

\* C10: after any set_variable calls interleaved with evaluations, an evaluation
\* that references a variable uses the value of the most recent set_variable on it
C10_LatestValueUsed ==
    call = "eval_tokens" =>
        /\ \A i \in 1..(Len(result.trace) - 1) :
              (result.rpn[i].kind = "Variable" /\ SetsOf(Key(result.rpn[i].name)) # {})
                  => VariableStep(result.rpn, result.trace, i)
        /\ \A v \in {"x", "Y"} :
              (/\ SetsOf(Key(v)) # {}
               /\ \/ tokens = <<Number(2), BinaryOperator("*"), Variable(v)>>
                  \/ config.implicit_mul /\ tokens = <<Number(2), Variable(v)>>)
                  => (result.status = "Ok" /\ result.value = 2 * MostRecent(Key(v)))

\* x = 10, then x = 5, then `2x` with implicit multiplication: 10
C10_Witness ==
    /\ call = "eval_tokens"
    /\ config.implicit_mul
    /\ tokens = <<Number(2), Variable("x")>>
    /\ set_log = <<<<"x", 10>>, <<"x", 5>>>>
    /\ result.status = "Ok"
    /\ result.value = 10

\* the name in upper case
Upper(s) ==
    CASE s \in {"x", "X"} -> "X"
      [] s \in {"y", "Y"} -> "Y"
      [] s \in {"pi", "Pi", "PI"} -> "PI"
      [] s \in {"e", "E"} -> "E"
      [] s \in {"max", "Max", "MAX"} -> "MAX"
      [] s \in {"min", "Min", "MIN"} -> "MIN"
      [] s \in {"sum", "Sum", "SUM"} -> "SUM"
      [] s \in {"mod", "Mod", "MOD"} -> "MOD"
      [] OTHER -> s

\* the two names are equal ignoring case
SameName(a, b) == Upper(a) = Upper(b)

\* the map holds an entry under the name, in some casing
Holds(map, name) == \E k \in DOMAIN map : SameName(k, name)

\* C11: once add_constant(k, v) has been called the constant stays, and every later
\* set_variable(k', _) with k' equal to k ignoring case fails (it panics) and leaves
\* the variables map as it was
C11_ConstantBlocksSetVariable ==
    [][/\ \A k \in CtxConstNames, v \in CtxConstValues :
             AddConstant(k, v) => Holds(constants', k)
       /\ \A c \in DOMAIN constants : Holds(constants', c)
       /\ \A name \in CtxVarNames, value \in CtxVarValues :
             (SetVariable(name, value) /\ Holds(constants, name))
                => (result'.status = "Panic" /\ variables' = variables)]_vars

\* x is set to 5, add_constant("X", 7) is called, and a set_variable on x then fails
\* and leaves x = 5
C11_Witness ==
    /\ call = "set_variable"
    /\ result.status = "Panic"
    /\ DOMAIN constants = {"pi", "e", "x"}
    /\ constants["x"] = 7
    /\ DOMAIN variables = {"x"}
    /\ variables["x"] = 5

\* C12: in every state reached by set_variable and add_constant calls in any order,
\* no name, compared ignoring case, is in both the variables and the constants map
C12_NoNameIsVariableAndConstant ==
    \A a \in DOMAIN variables, b \in DOMAIN constants : ~SameName(a, b)

\* the names looked up, in every casing
LookupNames ==
    {"x", "X", "y", "Y", "pi", "Pi", "PI", "e", "E", "max", "Max", "MAX", "min", "Min",
     "MIN", "sum", "Sum", "SUM", "mod", "Mod", "MOD", "+", "-", "*", "!"}

\* what the five getters return: None, or Some(entry)
ConstantOf(s) == IF is_constant(s) THEN Some(get_constant(s)) ELSE None

VariableOf(s) == IF is_variable(s) THEN Some(get_variable(s)) ELSE None

FunctionOf(s) == IF is_a_function(s) THEN Some(get_function(s)) ELSE None

BinaryFunctionOf(s) == IF is_binary_function(s) THEN Some(get_binary_function(s)) ELSE None

UnaryFunctionOf(s) == IF is_unary_function(s) THEN Some(get_unary_function(s)) ELSE None

\* C13: get_constant(s) and get_constant(upper(s)) return the same value, and each
\* of the five getters returns the same entry for two names that differ only in case
C13_LookupsIgnoreCase ==
    /\ \A s \in LookupNames : Upper(s) \in LookupNames /\ ConstantOf(s) = ConstantOf(Upper(s))
    /\ \A a, b \in LookupNames :
          SameName(a, b) =>
              /\ ConstantOf(a) = ConstantOf(b)
              /\ VariableOf(a) = VariableOf(b)
              /\ FunctionOf(a) = FunctionOf(b)
              /\ BinaryFunctionOf(a) = BinaryFunctionOf(b)
              /\ UnaryFunctionOf(a) = UnaryFunctionOf(b)

\* after set_variable("y", 5), add_binary_function(max) and add_constant("X", 7):
\* x, X, y, Y, max and MAX are found
C13_Witness ==
    /\ call = "add_constant"
    /\ ConstantOf("x") = Some(7)
    /\ ConstantOf("X") = Some(7)
    /\ VariableOf("Y") = Some(5)
    /\ VariableOf("y") = Some(5)
    /\ BinaryFunctionOf("MAX") # None
    /\ BinaryFunctionOf("MAX") = BinaryFunctionOf("max")

\* C14: add_function, add_binary_function or add_unary_function with a name already
\* in that same map, ignoring case, fails with InvalidInput, and the callable
\* registered under the name stays as it was
C14_DuplicateNameIsInvalidInput ==
    [][/\ \A func \in NewFunctions :
             (AddFunction(func) /\ Holds(functions, func.name))
                => (result' = RpnErr(InvalidInput) /\ functions' = functions)
       /\ \A func \in NewBinaryFunctions :
             (AddBinaryFunction(func) /\ Holds(binary_functions, func.name))
                => (result' = RpnErr(InvalidInput) /\ binary_functions' = binary_functions)
       /\ \A func \in NewUnaryFunctions :
             (AddUnaryFunction(func) /\ Holds(unary_functions, func.name))
                => (result' = RpnErr(InvalidInput) /\ unary_functions' = unary_functions)]_vars

\* the call returned (), func is registered under its name and every entry the map
\* held is as it was
Registered(old, new, func) ==
    /\ result' = Unit
    /\ \E k \in DOMAIN new : SameName(k, func.name) /\ new[k] = func
    /\ \A k \in DOMAIN old : k \in DOMAIN new /\ new[k] = old[k]

\* C15: registering a callable whose name is not in its own map succeeds, also when
\* the name is in another callable map, and leaves the other two callable maps, the
\* variables and the constants unchanged
C15_CallableMapsAreIndependent ==
    [][/\ \A func \in NewFunctions :
             (AddFunction(func) /\ ~Holds(functions, func.name))
                => /\ Registered(functions, functions', func)
                   /\ UNCHANGED <<binary_functions, unary_functions, variables, constants>>
       /\ \A func \in NewBinaryFunctions :
             (AddBinaryFunction(func) /\ ~Holds(binary_functions, func.name))
                => /\ Registered(binary_functions, binary_functions', func)
                   /\ UNCHANGED <<functions, unary_functions, variables, constants>>
       /\ \A func \in NewUnaryFunctions :
             (AddUnaryFunction(func) /\ ~Holds(unary_functions, func.name))
                => /\ Registered(unary_functions, unary_functions', func)
                   /\ UNCHANGED <<functions, binary_functions, variables, constants>>]_vars

\* add_unary_function of a prefix `*` on the checked context: `*` is then a unary
\* and a binary operator, as `-` is from the start
C15_Witness ==
    /\ call = "add_unary_function"
    /\ result = Unit
    /\ "*" \in DOMAIN unary_functions
    /\ binary_functions["*"] = CheckedBinaryFunctions["*"]
    /\ "-" \in DOMAIN unary_functions
    /\ "-" \in DOMAIN binary_functions

\* every entry of the grouping map is filed under a member of its pair, and both
\* members of the pair lead to that same record
PairsMapBack(grouping) ==
    \A s \in DOMAIN grouping :
        LET g == grouping[s]
        IN  /\ s \in {g.group_open, g.group_close}
            /\ g.group_open \in DOMAIN grouping
            /\ g.group_close \in DOMAIN grouping
            /\ grouping[g.group_open] = g
            /\ grouping[g.group_close] = g

\* the call registered the pair: either symbol leads to {open, close}, and the pairs
\* registered before are as they were
PairRegistered(old, new, open, close) ==
    /\ result' = Unit
    /\ DOMAIN new = DOMAIN old \cup {open, close}
    /\ new[open] = [group_open |-> open, group_close |-> close]
    /\ new[close] = new[open]
    /\ \A s \in DOMAIN old : new[s] = old[s]

\* C16: in every Config built by with_group_symbol calls, looking up either symbol
\* of a registered pair (o, c) returns the record {open: o, close: c}, and a call
\* whose open or close symbol is already registered, as either member of a pair,
\* fails
C16_GroupPairsMapBack ==
    [][\A o, c \in GroupSymbols :
          WithGroupSymbol(o, c) =>
              /\ PairsMapBack(config'.grouping)
              /\ (o \in DOMAIN config.grouping \/ c \in DOMAIN config.grouping)
                    => (result'.status = "Panic" /\ config' = config)
              /\ (o \notin DOMAIN config.grouping /\ c \notin DOMAIN config.grouping /\ o # c)
                    => PairRegistered(config.grouping, config'.grouping, o, c)]_vars

\* the Config of config_test, and a further with_group_symbol on one of its symbols
C16_Witness ==
    /\ call = "with_group_symbol"
    /\ result.status = "Panic"
    /\ DOMAIN config.grouping = {"(", ")", "[", "]"}
    /\ get_group_symbol("(") = GroupingSymbol("(", ")")
    /\ get_group_symbol(")") = GroupingSymbol("(", ")")
    /\ get_group_symbol("[") = GroupingSymbol("[", "]")
    /\ get_group_symbol("]") = GroupingSymbol("[", "]")

\* the state of the conversion when its loop is about to read the token at the
\* 0-based position `end` (or has returned an error before it)
RECURSIVE sy_prefix(_, _, _, _)
sy_prefix(ts, sy, pos, end) ==
    IF pos >= end \/ sy.err # "" THEN sy
    ELSE sy_prefix(ts, sy_token(ts, sy, pos), pos + 1, end)

\* ts[p] is a Function token not directly followed by GroupingOpen('(')
BareFunctionAt(ts, p) ==
    /\ is_function(ts[p])
    /\ (p = Len(ts) \/ ts[p + 1] # GroupingOpen("("))

\* C17: with custom_function_call off, a Function token that is last in the input or
\* is followed by anything but GroupingOpen('('), another open symbol such as `[`
\* included, makes infix_to_rpn return an error: InvalidInput, raised at that
\* token, unless a token before it was already rejected
C17_FunctionNeedsParenthesis ==
    (call = "infix_to_rpn" /\ ~config.custom_function_call) =>
        \A p \in 1..Len(tokens) :
            BareFunctionAt(tokens, p) =>
                /\ result.status = "Err"
                /\ sy_prefix(tokens, SyInit, 0, p - 1).err = ""
                      => result = RpnErr(InvalidInput)

\* `2 - Max [ 3`: the call opens with a configured symbol that is not `(`
C17_Witness ==
    /\ call = "infix_to_rpn"
    /\ ~config.custom_function_call
    /\ tokens = <<Number(2), BinaryOperator("-"), Function("Max"), GroupingOpen("[")>>
    /\ sy_prefix(tokens, SyInit, 0, 2).operators = <<BinaryOperator("-")>>
    /\ result = RpnErr(InvalidInput)

\* the comma at p is in the argument list of a call: the innermost grouping-open
\* that encloses it directly follows a Function token
InArgumentList(ts, p) ==
    /\ OpenOf(ts, p) > 1
    /\ is_function(ts[OpenOf(ts, p) - 1])

\* the comma at p is first in the input, directly after a grouping-open, directly
\* before a grouping-close, or not in the argument list of a call
MisplacedComma(ts, p) ==
    \/ p = 1
    \/ is_grouping_open(ts[p - 1])
    \/ (p < Len(ts) /\ is_grouping_close(ts[p + 1]))
    \/ ~InArgumentList(ts, p)

\* C18: infix_to_rpn returns an error for every input with a comma at position 0,
\* directly after a grouping-open, directly before a grouping-close, outside every
\* grouping, or inside a plain grouping, whatever the nesting and whatever calls
\* were closed before it
C18_CommaOnlyInArgumentList ==
    call = "infix_to_rpn" =>
        \A p \in 1..Len(tokens) :
            (tokens[p] = Comma /\ MisplacedComma(tokens, p)) => result.status = "Err"

\* `(Max(2, 3), 3)`: the second comma follows a closed call, in a plain grouping
C18_Witness ==
    /\ call = "infix_to_rpn"
    /\ tokens = Group(Call("Max", <<Number(2), Comma, Number(3)>>) \o <<Comma, Number(3)>>)
    /\ ~MisplacedComma(tokens, 5)
    /\ MisplacedComma(tokens, 8)
    /\ result.status = "Err"

\* l ends in a Number and r starts with a Variable, a Constant, a Function call or a
\* GroupingOpen, or l ends in a GroupingClose and r starts with any of these or with
\* a Number
AdjacentPair(l, r) ==
    \/ /\ is_number(Last(l))
       /\ Head(r).kind \in {"Variable", "Constant", "Function", "GroupingOpen"}
    \/ /\ is_grouping_close(Last(l))
       /\ Head(r).kind \in {"Number", "Variable", "Constant", "Function", "GroupingOpen"}

\* the product of what the two operands evaluate to on their own
ProductOf(lv, rv) ==
    IF lv.status = "Ok" /\ rv.status = "Ok"
    THEN ReturnsCall(call_binary(get_binary_function("*"), lv.value, rv.value))
    ELSE result.status # "Ok"

\* C19: with implicit_mul on, two operands written side by side (a Number before a
\* Variable, Constant, Function call or GroupingOpen; a GroupingClose before any of
\* these or a Number) convert to the RPN of the first, the RPN of the second and
\* `*`, and evaluate to the product of the two
C19_ImplicitProduct ==
    config.implicit_mul =>
        \A l \in MulLefts, r \in MulRights :
            (tokens = l \o r /\ AdjacentPair(l, r)) =>
                /\ call = "infix_to_rpn" =>
                      result = RpnOk(infix_to_rpn(l).rpn \o infix_to_rpn(r).rpn
                                        \o <<BinaryOperator("*")>>)
                /\ call = "eval_tokens" => ProductOf(rpn_eval(l), rpn_eval(r))

\* `(2 - 3) x` with x = 10 evaluates to -10 through the RPN `2 3 - x *`
C19_Witness ==
    /\ call = "eval_tokens"
    /\ config.implicit_mul
    /\ tokens = Group(<<Number(2), BinaryOperator("-"), Number(3)>>) \o <<Variable("x")>>
    /\ is_variable("x")
    /\ get_variable("x") = 10
    /\ result.rpn = <<Number(2), Number(3), BinaryOperator("-"), Variable("x"),
                      BinaryOperator("*")>>
    /\ result.status = "Ok"
    /\ result.value = -10

\* the token sequence with BinaryOperator("*") written at every position where the
\* conversion injects a multiplication
RECURSIVE WithExplicitMul(_, _)
WithExplicitMul(ts, pos) ==
    IF pos >= Len(ts) THEN <<>>
    ELSE <<Nth(ts, pos)>>
            \o (IF injects_mul(ts, pos) THEN <<BinaryOperator("*")>> ELSE <<>>)
            \o WithExplicitMul(ts, pos + 1)

\* C20: with implicit_mul on, infix_to_rpn returns for an expression with implicit
\* multiplications the RPN it returns for the same expression with `*` written at
\* each of those positions
C20_ImplicitMulAsExplicit ==
    (call = "infix_to_rpn" /\ config.implicit_mul) =>
        result = infix_to_rpn(WithExplicitMul(tokens, 0))

\* the conversion, at the token at the 1-based position p, did what the `match`
\* does and pushed nothing more
NothingInjectedAt(ts, p, before) ==
    before.err = "" =>
        sy_prefix(ts, SyInit, 0, p) = match_token(ts, before, p - 1, ts[p])

\* C21: with implicit_mul on, no `*` is injected after a Variable or Constant token,
\* whatever follows it, and evaluating an expression in which a Variable or Constant
\* is directly followed by a group, such as `5x(2)`, returns an error
C21_NameBeforeGroupIsNoProduct ==
    config.implicit_mul =>
        /\ \A p \in 1..Len(tokens) :
              tokens[p].kind \in {"Variable", "Constant"} =>
                  NothingInjectedAt(tokens, p, sy_prefix(tokens, SyInit, 0, p - 1))
        /\ call = "infix_to_rpn" =>
              \A v \in Names :
                  tokens = <<Number(5), v>> \o Group(<<Number(2)>>) =>
                      result = RpnOk(<<Number(5), v, Number(2), BinaryOperator("*")>>)
        /\ call = "eval_tokens" => result.status = "Err"

\* `5x(2)` with x = 10: converted to `5 x 2 *`, which leaves two values
C21_Witness ==
    /\ call = "eval_tokens"
    /\ config.implicit_mul
    /\ tokens = <<Number(5), Variable("x")>> \o Group(<<Number(2)>>)
    /\ is_variable("x")
    /\ result.rpn = <<Number(5), Variable("x"), Number(2), BinaryOperator("*")>>
    /\ result.status = "Err"
    /\ result.kind = InvalidExpression

\* the preloaded context of the state registers the names of the four maps given
RegistersNamesOf(consts, binaries, unaries, funcs) ==
    /\ DOMAIN constants = DOMAIN consts
    /\ DOMAIN binary_functions = DOMAIN binaries
    /\ DOMAIN unary_functions = DOMAIN unaries
    /\ DOMAIN functions = DOMAIN funcs

\* C22: the context built by new_unchecked_with_config registers the names the one
\* built by new_checked_with_config registers, and the reverse: PI and E, the binary
\* and the unary operators, and the standard functions, abs, floor, ceil, truncate,
\* round and sign among them
C22_FlavorsRegisterSameNames ==
    /\ call = "new_checked_with_config" =>
          /\ RegistersNamesOf(CheckedConstants, UncheckedBinaryFunctions,
                              UncheckedUnaryFunctions, UncheckedFunctions)
          /\ {"abs", "floor", "ceil", "truncate", "round", "sign"} \subseteq DOMAIN functions
    /\ call = "new_unchecked_with_config" =>
          /\ RegistersNamesOf(CheckedConstants, CheckedBinaryFunctions,
                              CheckedUnaryFunctions, CheckedFunctions)
          /\ {"abs", "floor", "ceil", "truncate", "round", "sign"} \subseteq DOMAIN functions

\* what the callable named by the RPN token returns for the arguments it was
\* invoked with
CallOf(token, args) ==
    CASE token.kind = "UnaryOperator" -> call_unary(get_unary_function(token.name), args[1])
      [] token.kind = "BinaryOperator" ->
            call_binary(get_binary_function(token.name), args[1], args[2])
      [] token.kind = "Function" -> call_function(get_function(token.name), args)

\* the step of rpn_eval at rpn[i] invoked a callable that returned the error r: the
\* loop ended there and the evaluation returned that error
ErrorStep(trace, i, r) ==
    r.status = "Err" =>
        /\ Len(trace) = i + 1
        /\ result.status = "Err"
        /\ result.kind = r.kind

\* C23: when a unary, binary or n-ary callable invoked by rpn_eval returns an error,
\* rpn_eval stops at that token and returns an error of the same kind; no later
\* token is processed and no value is returned
C23_CallableErrorIsReturned ==
    call = "eval_tokens" =>
        \A i \in 1..(Len(result.trace) - 1) :
            result.trace[i + 1].invoked # <<>> =>
                ErrorStep(result.trace, i,
                          CallOf(result.rpn[i], result.trace[i + 1].invoked[1].args))

\* `3 - 2 / 0 + 3`: the division is the fourth of seven RPN tokens
C23_Witness ==
    /\ call = "eval_tokens"
    /\ tokens = <<Number(3), BinaryOperator("-"), Number(2), BinaryOperator("/"), Number(0),
                  BinaryOperator("+"), Number(3)>>
    /\ Len(result.rpn) = 7
    /\ result.rpn[4] = BinaryOperator("/")
    /\ Len(result.trace) = 5
    /\ result.trace[5].invoked = Invoked("/", <<2, 0>>)
    /\ result.status = "Err"
    /\ result.kind = DivisionByZero

\* C24: eval_tokens (rpn_eval) and infix_to_rpn leave the variables, the constants,
\* the three callable maps and the config as they were, whether they return a value
\* or an error
C24_EvaluationLeavesContext ==
    [][call' \in {"eval_tokens", "infix_to_rpn"} =>
          /\ variables' = variables
          /\ constants' = constants
          /\ functions' = functions
          /\ binary_functions' = binary_functions
          /\ unary_functions' = unary_functions
          /\ config' = config]_vars

\* x = 5 and x = 10 were set, and `x * Y` was then evaluated: Y is unbound, the
\* evaluation returned InvalidInput, and x is still bound to 10 and Y still unbound
C24_Witness ==
    /\ call = "eval_tokens"
    /\ tokens = <<Variable("x"), BinaryOperator("*"), Variable("Y")>>
    /\ set_log = <<<<"x", 5>>, <<"x", 10>>>>
    /\ result.status = "Err"
    /\ result.kind = InvalidInput
    /\ DOMAIN variables = {"x"}
    /\ variables["x"] = 10

\* rpn_eval is at the operator rpn[i] and the value stack holds fewer values than
\* the operator takes
Underflow(token, values) ==
    \/ token.kind = "UnaryOperator" /\ values = <<>>
    \/ token.kind = "BinaryOperator" /\ Len(values) < 2

\* the evaluation ended at rpn[i] and returned InvalidExpression
UnderflowStep(trace, i) ==
    /\ Len(trace) = i + 1
    /\ trace[i + 1].invoked = <<>>
    /\ ReturnsCall(Err(InvalidExpression))

\* C25: when rpn_eval reaches a UnaryOperator token with an empty value stack or a
\* BinaryOperator token with fewer than two values on the stack, as for `2^`, `3+`
\* and `^3!`, it returns InvalidExpression
C25_OperatorUnderflow ==
    call = "eval_tokens" =>
        /\ \A i \in 1..(Len(result.trace) - 1) :
              Underflow(result.rpn[i], result.trace[i].values) =>
                  UnderflowStep(result.trace, i)
        /\ tokens \in {<<Number(2), BinaryOperator("^")>>,
                        <<Number(3), BinaryOperator("+")>>,
                        <<BinaryOperator("^"), Number(3), UnaryOperator("!")>>,
                        <<UnaryOperator("-")>>}
              => ReturnsCall(Err(InvalidExpression))

\* `^3!` evaluated: the RPN is `3 ! ^`, and `^` finds the single value 6
C25_Witness ==
    /\ call = "eval_tokens"
    /\ tokens = <<BinaryOperator("^"), Number(3), UnaryOperator("!")>>
    /\ result.rpn = <<Number(3), UnaryOperator("!"), BinaryOperator("^")>>
    /\ Len(result.trace) = 4
    /\ result.trace[3].values = <<6>>
    /\ result.status = "Err"
    /\ result.kind = InvalidExpression

\* every ArgCount token of the RPN is directly followed by a Function token
ArgCountsBeforeFunctions(rpn) ==
    \A j \in 1..Len(rpn) :
        rpn[j].kind = "ArgCount" => (j < Len(rpn) /\ is_function(rpn[j + 1]))

\* C26: whatever the input, every ArgCount token of the RPN that infix_to_rpn
\* returns is directly followed by a Function token, and arg_count is None whenever
\* rpn_eval processes an ArgCount token, so that `debug_assert_eq!(arg_count, None)`
\* never fails
C26_ArgCountSlotIsFree ==
    /\ (call = "infix_to_rpn" /\ result.status = "Ok") => ArgCountsBeforeFunctions(result.rpn)
    /\ call = "eval_tokens" =>
          /\ ArgCountsBeforeFunctions(result.rpn)
          /\ \A i \in 1..(Len(result.trace) - 1) :
                result.rpn[i].kind = "ArgCount" =>
                    /\ result.trace[i].arg_count = None
                    /\ result.trace[i + 1].out.status = "Run"
                    /\ result.trace[i + 1].arg_count = Some(result.rpn[i].val)

\* `5 + Max(Sum(2)) + 3`: two ArgCount tokens are processed, the second after the
\* call of Sum has returned
C26_Witness ==
    /\ call = "eval_tokens"
    /\ tokens = <<Number(5), BinaryOperator("+")>>
                    \o Call("Max", Call("Sum", <<Number(2)>>))
                    \o <<BinaryOperator("+"), Number(3)>>
    /\ result.rpn = <<Number(5), Number(2), ArgCount(1), Function("Sum"), ArgCount(1),
                      Function("Max"), BinaryOperator("+"), Number(3), BinaryOperator("+")>>
    /\ result.trace[4].arg_count = Some(1)
    /\ result.trace[5].arg_count = None
    /\ result.trace[6].arg_count = Some(1)
    /\ result.status = "Ok"
    /\ result.value = 10

\* `pre e op b` evaluates to what `op` returns for the value of `pre e` and b
PrefixAppliedFirst(left, op, b) ==
    left.status = "Ok" /\ ReturnsCall(call_binary(get_binary_function(op), left.value, b.val))

\* C27: `pre e op b`, with pre one prefix operator and e a parenthesised group or a
\* function call, or pre a chain of two prefix operators, and op additive or
\* multiplicative, evaluates to (pre e) op b: `-(2) + 3` to (-2) + 3, `--2 + 3` to
\* (-(-2)) + 3
C27_PrefixBindsTighter ==
    call = "eval_tokens" =>
        \A pre \in PrefixChains, e \in PrefixOperands, op \in PrefixOperators,
           b \in PrefixRights :
            (tokens = pre \o e \o <<BinaryOperator(op), b>> /\ (Len(pre) >= 2 \/ Len(e) > 1))
                => PrefixAppliedFirst(rpn_eval(pre \o e), op, b)

\* the call closed at m is written with an empty argument list, and the evaluation
\* reached its Function token, at j of the RPN
EmptyCallReached(ts, rpn, trace, m) ==
    /\ ArgsOf(ts, m) = 0
    /\ Rank(ts, m) <= Cardinality(FunctionPositions(rpn))
    /\ NthFunction(rpn, Rank(ts, m)) < Len(trace)

\* the step at the Function token rpn[j] invoked the function with no argument and
\* left the values of the enclosing expression on the stack
InvokedWithNothing(rpn, trace, j) ==
    /\ trace[j + 1].invoked = Invoked(rpn[j].name, <<>>)
    /\ trace[j + 1].out.status = "Run" =>
          Front(trace[j + 1].values) = trace[j].values

\* C28: a call written with an empty argument list, `f()`, invokes f with zero
\* arguments wherever it stands and takes no value of the enclosing expression:
\* `5 + Sum()` calls Sum with nothing and evaluates to 5 plus the result
C28_EmptyCallTakesNoArguments ==
    call = "eval_tokens" =>
        /\ \A m \in CallCloses(tokens) :
              EmptyCallReached(tokens, result.rpn, result.trace, m) =>
                  InvokedWithNothing(result.rpn, result.trace,
                                     NthFunction(result.rpn, Rank(tokens, m)))
        /\ tokens = <<Number(5), BinaryOperator("+")>> \o Call("Sum", <<>>) =>
              ReturnsCall(call_binary(get_binary_function("+"), 5, SumFunction(<<>>).value))

\* rpn_eval is at the Function token with arg_count = Some(k) and fewer than k
\* values on the stack
TooFewValues(token, ev) ==
    /\ is_function(token)
    /\ is_a_function(token.name)
    /\ ev.arg_count # None
    /\ Len(ev.values) < ev.arg_count[1]

\* the evaluation ended at rpn[i] with InvalidArgumentCount, the function not invoked
ArgumentCountStep(trace, i) ==
    /\ Len(trace) = i + 1
    /\ trace[i + 1].invoked = <<>>
    /\ ReturnsCall(Err(InvalidArgumentCount))

\* C29: when rpn_eval processes a Function token with arg_count = Some(k) and fewer
\* than k values on the stack, it returns InvalidArgumentCount and does not invoke
\* the function
C29_TooFewValuesIsAnError ==
    call = "eval_tokens" =>
        \A i \in 1..(Len(result.trace) - 1) :
            TooFewValues(result.rpn[i], result.trace[i]) =>
                ArgumentCountStep(result.trace, i)

\* C30: for every token sequence and every context, infix_to_rpn and rpn_eval end
\* with one RPN sequence or value, or with one error; no input makes them panic
C30_NoInputPanics ==
    call \in {"eval_tokens", "infix_to_rpn"} => result.status \in {"Ok", "Err"}

====
